---- MODULE Spec2Model ----
(***************************************************************************)
(* ResuMate: the tailored-resume export handlers of the Home page          *)
(* (handleDownloadDocx, handleDownloadPdf) in the two versions of the      *)
(* page held by the repository:                                            *)
(*   build "page"     src/src/app/page.tsx  (workExperience / education /  *)
(*                    otherSections resume object)                         *)
(*   build "part_000" src/unnamed/part_000  (summary string + sections)    *)
(*                                                                         *)
(* A string is a sequence of one-character strings.  Lengths are in        *)
(* hundredths of a point (jsPDF unit 'pt', page format 'a4').              *)
(***************************************************************************)
EXTENDS Integers, Sequences, FiniteSets, TLC

VARIABLES build, tailoredResume, docxState, docChildren,
          pdfPc, pdfIdx, yPos, pages, pdfLog,
          lastDocx, lastPdf,
          isLoading, analysis, suggestions, toasts, submitPc, resumeFile,
          extraction, calls, submits,
          messages, input, chatIsLoading, chatCall, chatResult, chatToasts,
          flowCall, flowOutput,
          coverLetter, isCoverLetterDialogOpen, isGeneratingCoverLetter, coverCall

\* what the previous run of each export handler left, kept to compare runs
runVars == <<lastDocx, lastPdf>>

\* the Home page outside the export handlers: useState values of page.tsx,
\* the position of onSubmit and the promises it awaits
homeVars == <<isLoading, analysis, suggestions, toasts, submitPc, resumeFile,
              extraction, calls, submits>>

\* the chatbot page: useState values of chatbot/page.tsx, the careerChat call
\* in flight
chatVars == <<messages, input, chatIsLoading, chatCall, chatResult, chatToasts>>

\* generateTailoredResume of generate-tailored-resume.ts: the promise of the
\* call and what the prompt gave the flow
flowVars == <<flowCall, flowOutput>>

\* the cover letter of Home: useState values of page.tsx 49-53 and the
\* handleGenerateCoverLetter call in flight
coverVars == <<coverLetter, isCoverLetterDialogOpen, isGeneratingCoverLetter,
               coverCall>>

vars == <<build, tailoredResume, docxState, docChildren,
          pdfPc, pdfIdx, yPos, pages, pdfLog, runVars, homeVars, chatVars,
          flowVars, coverVars>>

(***************************************************************************)
(* Bounds of the model                                                     *)
(***************************************************************************)
\* most turns of a chat transcript after which no further message is sent
MaxTurns == 5
\* most submissions of the form in one session
MaxSubmits == 2
\* most notifications raised after which no further cover letter is requested
MaxToasts == 3
\* longest Section body, in characters
MaxBody == 3
\* most work items of a resume
MaxJobs == 2
\* wrapped lines one "a" (a run of words) fills at the full text width
WordLines == 30

(***************************************************************************)
(* Strings                                                                 *)
(***************************************************************************)
NL == "\n"
\* the bullet glyph U+2022 of the PDF exporters
Glyph == "+"
\* an absent (undefined) optional string field
undefined == <<"undefined">>
\* the state value null of useState<... | null>(null)
Null == [null |-> TRUE]

Str(c) == <<c>>

\* JavaScript truthiness of an optional string: undefined and "" are falsy
Boolean(s) == s # undefined /\ s # <<>>

IsSpace(c) == c \in {" ", NL}

StartsWith(s, p) == Len(s) >= Len(p) /\ SubSeq(s, 1, Len(p)) = p

\* String.prototype.substring(n)
Substring(s, n) == SubSeq(s, n + 1, Len(s))

\* String.prototype.trim()
RECURSIVE TrimStart(_)
TrimStart(s) == IF s # <<>> /\ IsSpace(Head(s)) THEN TrimStart(Tail(s)) ELSE s

RECURSIVE TrimEnd(_)
TrimEnd(s) ==
    IF s # <<>> /\ IsSpace(s[Len(s)]) THEN TrimEnd(SubSeq(s, 1, Len(s) - 1)) ELSE s

Trim(s) == TrimEnd(TrimStart(s))

\* line.replace(/^[*-]\s*/, '')
StripMarker(s) ==
    IF s # <<>> /\ Head(s) \in {"*", "-"} THEN TrimStart(Tail(s)) ELSE s

\* String.prototype.split('\n'): "" gives [""], "a\n" gives ["a", ""]
RECURSIVE Split(_)
Split(s) ==
    IF \A i \in 1..Len(s) : s[i] # NL
    THEN <<s>>
    ELSE LET k == CHOOSE i \in 1..Len(s) :
                     s[i] = NL /\ \A j \in 1..(i - 1) : s[j] # NL
         IN  <<SubSeq(s, 1, k - 1)>> \o Split(Substring(s, k))

\* Array.prototype.filter
RECURSIVE SelectSeqBoolean(_)
SelectSeqBoolean(ss) ==
    IF ss = <<>> THEN <<>>
    ELSE (IF Boolean(Head(ss)) THEN <<Head(ss)>> ELSE <<>>)
         \o SelectSeqBoolean(Tail(ss))

\* Array.prototype.join(sep)
RECURSIVE Join(_, _)
Join(ss, sep) ==
    IF ss = <<>> THEN <<>>
    ELSE IF Len(ss) = 1 THEN Head(ss)
    ELSE Head(ss) \o sep \o Join(Tail(ss), sep)

\* concatenation of a sequence of sequences (flatMap / forEach push)
RECURSIVE Concat(_)
Concat(ss) == IF ss = <<>> THEN <<>> ELSE Head(ss) \o Concat(Tail(ss))

\* String.prototype.toUpperCase() on the characters of the model
UpperChar(c) ==
    CASE c = "a" -> "A"
      [] c = "n" -> "N"
      [] c = "t" -> "T"
      [] c = "Summary" -> "SUMMARY"
      [] c = "Skills" -> "SKILLS"
      [] c = "Work Experience" -> "WORK EXPERIENCE"
      [] c = "Education" -> "EDUCATION"
      [] OTHER -> c

ToUpperCase(s) == [i \in 1..Len(s) |-> UpperChar(s[i])]

Max(a, b) == IF a >= b THEN a ELSE b

(***************************************************************************)
(* Page geometry of handleDownloadPdf: new jsPDF('p', 'pt', 'a4')          *)
(***************************************************************************)
margin == 4000
pageWidth == 59528
pageHeight == 84189
sectionSpacing == 2000
\* one wrapped line: 10 * lineSpacing (page.tsx), 12 (part_000)
lineHeight == 1200

\* width of one character as jsPDF measures it; an "a" stands for a run of
\* words filling WordLines lines of the full text width
CharWidth(c) == IF c = "a" THEN WordLines * (pageWidth - margin * 2) ELSE 300

RECURSIVE TextWidth(_)
TextWidth(s) == IF s = <<>> THEN 0 ELSE CharWidth(Head(s)) + TextWidth(Tail(s))

\* doc.splitTextToSize(text, width).length: the number of wrapped lines;
\* the empty string wraps to the one line ""
splitTextToSize(text, width) ==
    Max(1, (TextWidth(text) + width - 1) \div width)

(***************************************************************************)
(* The resume objects the generation flow may hand to setTailoredResume    *)
(***************************************************************************)
A(k) == [i \in 1..k |-> "a"]

Section(title, body) == [title |-> title, body |-> body]

BodyChars == {"-", "*", " ", "a", NL}
BodySet == UNION {[1..k -> BodyChars] : k \in 0..MaxBody}

TitleSet == {Str("Skills"), Str("Work Experience"), Str("Education")}

DescriptionSet == {<<>>, <<A(1)>>, <<A(1), A(2)>>, <<A(3)>>}

WorkItem(description) ==
    [jobTitle |-> Str("j"), company |-> Str("c"), location |-> Str("l"),
     dates |-> Str("d"), description |-> description]

WorkItemSet == {WorkItem(d) : d \in DescriptionSet}
WorkSet == UNION {[1..k -> WorkItemSet] : k \in 0..MaxJobs}

EducationItem(dates, location, details) ==
    [degree |-> Str("g"), school |-> Str("s"), location |-> location,
     dates |-> dates, details |-> details]

EducationSet ==
    {<<>>} \cup
    {<<EducationItem(d, l, ds)>> :
        d \in {undefined, <<>>, Str("d")}, l \in {undefined, Str("l")},
        ds \in {<<>>, <<A(1)>>}}

Resume(candidateTitle, phone, email, linkedin, address, summaryBody, workExperience, education, otherSections) ==
    [name |-> Str("n"), candidateTitle |-> candidateTitle,
     email |-> email, phone |-> phone, linkedin |-> linkedin,
     address |-> address,
     summary |-> [title |-> Str("Summary"), body |-> summaryBody],
     workExperience |-> workExperience, education |-> education,
     otherSections |-> otherSections]

Phone == Str("555-1234")
Email == Str("a@b.com")

\* resumes that exercise pagination
LayoutResumes ==
    {Resume(undefined, Phone, Email, undefined, undefined, sb, w, e, o) :
        sb \in {<<>>, A(1), A(3)},
        w \in WorkSet,
        e \in {<<>>, <<EducationItem(Str("d"), Str("l"), <<A(1)>>)>>},
        o \in {<<>>, <<Section(Str("Skills"), A(1)),
                       Section(Str("Skills"), <<"-", " ", "a">>)>>}}

\* resumes that exercise the text of a Section body
BodyResumes ==
    {Resume(undefined, Phone, Email, undefined, undefined, A(1), <<>>, <<>>,
            <<Section(Str("Skills"), b)>>) : b \in BodySet}

\* resumes that exercise the section titles
TitleResumes ==
    {Resume(undefined, Phone, Email, undefined, undefined, <<>>, w, e, o) :
        w \in {<<>>, <<WorkItem(<<>>)>>, <<WorkItem(<<A(1)>>), WorkItem(<<>>)>>},
        e \in {<<>>, <<EducationItem(undefined, undefined, <<>>)>>},
        o \in UNION {[1..k -> {Section(t, A(1)) : t \in TitleSet}] : k \in 0..2}}

\* resumes that exercise the header and the education details line
ContactResumes ==
    {Resume(ct, p, e, l, a, <<>>, <<>>, <<>>, <<>>) :
        ct \in {undefined, Str("t")},
        p \in {<<>>, Phone}, e \in {<<>>, Email},
        l \in {undefined, <<>>, Str("in/x")},
        a \in {undefined, <<>>, Str("NYC")}}
    \cup
    {Resume(undefined, Phone, Email, undefined, undefined, <<>>, <<>>, e, <<>>) :
        e \in EducationSet}

\* entries that can be told apart, to exercise the order of the entries
Job(jobTitle, description) ==
    [WorkItem(description) EXCEPT !.jobTitle = jobTitle]

Degree(degree, school, details) ==
    [EducationItem(Str("d"), Str("l"), details) EXCEPT
        !.degree = degree, !.school = school]

Pairs(x, y) == {<<x, y>>, <<y, x>>}

OrderResumes ==
    {Resume(undefined, Phone, Email, undefined, undefined, Str("x"), w, e, o) :
        w \in Pairs(Job(Str("j1"), <<Str("p"), Str("q")>>), Job(Str("j2"), <<Str("r")>>)),
        e \in Pairs(Degree(Str("g1"), Str("s1"), <<Str("u")>>),
                    Degree(Str("g2"), <<>>, <<Str("v"), Str("w")>>)),
        o \in Pairs(Section(Str("Skills"), <<"y", NL, "x">>),
                    Section(Str("Education"), <<"-", " ", "z">>))}

ResumeSet ==
    LayoutResumes \cup BodyResumes \cup TitleResumes \cup ContactResumes
    \cup OrderResumes

\* the resume objects of the sections-based version (part_000)
SectionsResume(linkedin, summary, sections) ==
    [name |-> Str("n"), email |-> Email, phone |-> Phone,
     linkedin |-> linkedin, summary |-> summary, sections |-> sections]

SectionsResumeSet ==
    {SectionsResume(undefined, A(1), <<Section(Str("Skills"), b)>>) :
        b \in BodySet}
    \cup
    {SectionsResume(l, s, ss) :
        l \in {undefined, Str("in/x")},
        s \in {A(1), <<"-", " ", "a">>, A(3)},
        ss \in UNION {[1..k -> {Section(Str("Skills"), b) :
                                  b \in {A(2), <<"-", " ", "a">>}}] :
                      k \in 0..2}}

(***************************************************************************)
(* handleDownloadDocx (page.tsx): the Paragraphs pushed to docChildren     *)
(***************************************************************************)
\* one docx Paragraph: where the code creates it (role), its text, whether
\* it carries bullet: { level: 0 } and its left indent; line is the Section
\* body line a Paragraph of the body loop was made from
Paragraph(role, text, bullet, indent) ==
    [role |-> role, text |-> text, bullet |-> bullet, indent |-> indent,
     line |-> <<>>]

LineParagraph(line, text, bullet, indent) ==
    [Paragraph("line", text, bullet, indent) EXCEPT !.line = line]

Slash == <<" ", "/", " ">>

\* the contact line joined without filter(Boolean)
contactInfoUnfiltered(r) ==
    Join(<<r.phone, r.email, r.linkedin, r.address>>, Slash)

\* [phone, email, linkedin, address].filter(Boolean).join(' / ')
contactInfo(r) ==
    Join(SelectSeqBoolean(<<r.phone, r.email, r.linkedin, r.address>>), Slash)

\* [edu.dates, edu.school, edu.location].filter(Boolean).join(' / ')
\* the secondary line of an education entry joined without filter(Boolean)
eduDetailsUnfiltered(edu) ==
    Join(<<edu.dates, edu.school, edu.location>>, Slash)

eduDetails(edu) ==
    Join(SelectSeqBoolean(<<edu.dates, edu.school, edu.location>>), Slash)

createSection(title) ==
    << Paragraph("sectionTitle", ToUpperCase(title), FALSE, 0),
       Paragraph("spacer", <<>>, FALSE, 0) >>

\* isBullet knowing the hyphen marker only
isBulletHyphenOnly(line) == StartsWith(line, <<"-", " ">>)

\* line.startsWith('- ') || line.startsWith('* ')
isBullet(line) == StartsWith(line, <<"-", " ">>) \/ StartsWith(line, <<"*", " ">>)

DocxHeader(r) ==
    << Paragraph("name", ToUpperCase(r.name), FALSE, 0) >>
    \o (IF Boolean(r.candidateTitle)
        THEN << Paragraph("candidateTitle", ToUpperCase(r.candidateTitle), FALSE, 0) >>
        ELSE <<>>)
    \o << Paragraph("contact", contactInfo(r), FALSE, 0) >>

\* the summary section without its guard on summary.body
DocxSummaryAlways(r) ==
    createSection(r.summary.title)
    \o << Paragraph("summary", r.summary.body, FALSE, 0) >>

DocxSummary(r) ==
    IF Boolean(r.summary.body)
    THEN createSection(r.summary.title)
         \o << Paragraph("summary", r.summary.body, FALSE, 0) >>
    ELSE <<>>

\* a work entry that gets its heading only when it has bullets
DocxJobIfBullets(job) ==
    IF job.description = <<>>
    THEN <<>>
    ELSE << Paragraph("workHeading", job.jobTitle \o Slash \o job.company, FALSE, 0),
            Paragraph("workDates", job.dates \o Slash \o job.location, FALSE, 0) >>
         \o [i \in 1..Len(job.description) |->
                 Paragraph("bullet", job.description[i], TRUE, 720)]

DocxJob(job) ==
    << Paragraph("workHeading", job.jobTitle \o Slash \o job.company, FALSE, 0),
       Paragraph("workDates", job.dates \o Slash \o job.location, FALSE, 0) >>
    \o [i \in 1..Len(job.description) |->
            Paragraph("bullet", job.description[i], TRUE, 720)]

\* the work experience section without its length guard
DocxWorkExperienceUnguarded(r) ==
    createSection(Str("Work Experience"))
    \o Concat([i \in 1..Len(r.workExperience) |-> DocxJob(r.workExperience[i])])

DocxWorkExperience(r) ==
    IF Len(r.workExperience) > 0
    THEN createSection(Str("Work Experience"))
         \o Concat([i \in 1..Len(r.workExperience) |-> DocxJob(r.workExperience[i])])
    ELSE <<>>

DocxEdu(edu) ==
    << Paragraph("eduHeading", edu.degree, FALSE, 0),
       Paragraph("eduDetails", eduDetails(edu), FALSE, 0) >>
    \o [i \in 1..Len(edu.details) |->
            Paragraph("bullet", edu.details[i], TRUE, 720)]

\* the education section walked from the last entry to the first
DocxEducationReversed(r) ==
    IF Len(r.education) > 0
    THEN createSection(Str("Education"))
         \o Concat([i \in 1..Len(r.education) |->
                       DocxEdu(r.education[Len(r.education) + 1 - i])])
    ELSE <<>>

DocxEducation(r) ==
    IF Len(r.education) > 0
    THEN createSection(Str("Education"))
         \o Concat([i \in 1..Len(r.education) |-> DocxEdu(r.education[i])])
    ELSE <<>>

DocxLine(line) ==
    LineParagraph(line, StripMarker(line), isBullet(line),
                  IF isBullet(line) THEN 720 ELSE 0)

DocxBody(body) ==
    LET lines == Split(body) IN [i \in 1..Len(lines) |-> DocxLine(lines[i])]

DocxOtherSection(section) ==
    createSection(section.title) \o DocxBody(section.body)

DocxOtherSections(r) ==
    Concat([i \in 1..Len(r.otherSections) |-> DocxOtherSection(r.otherSections[i])])

DocxChildren(r) ==
    DocxHeader(r) \o DocxSummary(r) \o DocxWorkExperience(r)
    \o DocxEducation(r) \o DocxOtherSections(r)

(***************************************************************************)
(* handleDownloadDocx (part_000): the children of the one docx section     *)
(***************************************************************************)
Bar == <<" ", "|", " ">>

\* `${email} | ${phone}${linkedin ? ` | ${linkedin}` : ''}`
contactInfoSections(r) ==
    r.email \o Bar \o r.phone
    \o (IF Boolean(r.linkedin) THEN Bar \o r.linkedin ELSE <<>>)

\* line.trim().startsWith('- ')
isBulletSections(line) == StartsWith(Trim(line), <<"-", " ">>)

DocxLineSections(line) ==
    LineParagraph(line,
                  IF isBulletSections(line) THEN Substring(Trim(line), 2) ELSE Trim(line),
                  isBulletSections(line),
                  IF isBulletSections(line) THEN 720 ELSE 0)

\* .filter(line => line.trim() !== '')
RECURSIVE FilterNonBlank(_)
FilterNonBlank(lines) ==
    IF lines = <<>> THEN <<>>
    ELSE (IF Trim(Head(lines)) # <<>> THEN <<Head(lines)>> ELSE <<>>)
         \o FilterNonBlank(Tail(lines))

DocxBodySections(body) ==
    LET lines == FilterNonBlank(Split(body))
    IN  [i \in 1..Len(lines) |-> DocxLineSections(lines[i])]

DocxSectionSections(section) ==
    << Paragraph("sectionTitle", section.title, FALSE, 0) >>
    \o DocxBodySections(section.body)
    \o << Paragraph("spacer", <<>>, FALSE, 0) >>

DocxChildrenSections(r) ==
    << Paragraph("name", r.name, FALSE, 0),
       Paragraph("contact", contactInfoSections(r), FALSE, 0),
       Paragraph("spacer", <<>>, FALSE, 0),
       Paragraph("sectionTitle", Str("Summary"), FALSE, 0),
       Paragraph("summary", r.summary, FALSE, 0) >>
    \o Concat([i \in 1..Len(r.sections) |-> DocxSectionSections(r.sections[i])])

(***************************************************************************)
(* handleDownloadPdf (page.tsx): the blocks in the order the code emits    *)
(* them.  A block is one checkPageBreak (or none) followed by its doc.text *)
(* calls and yPos increments:                                              *)
(*   check, need   whether checkPageBreak(need) precedes the block         *)
(*   texts         the doc.text calls, each with its offset dy below the   *)
(*                 cursor the block starts at                              *)
(*   x, wrap       x offset of the text, width given to splitTextToSize    *)
(*   advance       total of the block's yPos increments                    *)
(*   line          the Section body line a block of the body loop is for   *)
(***************************************************************************)
Text(text, dy) == [text |-> text, dy |-> dy]

Block(role, check, need, texts, bullet, x, wrap, advance) ==
    [role |-> role, check |-> check, need |-> need, texts |-> texts,
     bullet |-> bullet, x |-> x, wrap |-> wrap, advance |-> advance,
     line |-> <<>>]

LineBlock(line, need, text, bullet, x, wrap, advance) ==
    [Block("line", TRUE, need, <<Text(text, 0)>>, bullet, x, wrap,
           advance) EXCEPT !.line = line]

Gap(advance) == Block("gap", FALSE, 0, <<>>, FALSE, 0, 0, advance)

PdfHeader(r) ==
    << Block("name", FALSE, 0, <<Text(ToUpperCase(r.name), 0)>>, FALSE,
             margin, 0, 2400) >>
    \o (IF Boolean(r.candidateTitle)
        THEN << Block("candidateTitle", FALSE, 0,
                      <<Text(ToUpperCase(r.candidateTitle), 0)>>, FALSE,
                      margin, 0, 2000) >>
        ELSE <<>>)
    \o << Block("contact", FALSE, 0, <<Text(contactInfo(r), 0)>>, FALSE,
                margin, 0, sectionSpacing) >>

printSectionTitle(title) ==
    Block("sectionTitle", TRUE, 3000,
          <<Text(ToUpperCase(title), sectionSpacing \div 2)>>, FALSE,
          margin, 0, sectionSpacing \div 2 + 800 + 1500)

PdfSummary(r) ==
    IF Boolean(r.summary.body)
    THEN LET wrap == pageWidth - margin * 2
             summaryLines == splitTextToSize(r.summary.body, wrap)
         IN  << printSectionTitle(r.summary.title),
                Block("summary", TRUE, summaryLines * lineHeight,
                      <<Text(r.summary.body, 0)>>, FALSE, margin, wrap,
                      summaryLines * lineHeight) >>
    ELSE <<>>

\* one description / details entry
PdfBullet(desc) ==
    LET bulletPoint == <<Glyph, " ">> \o desc
        wrap == pageWidth - margin * 2 - 1500
        bulletLines == splitTextToSize(bulletPoint, wrap)
    IN  Block("bullet", TRUE, bulletLines * lineHeight,
              <<Text(bulletPoint, 0)>>, TRUE, margin + 500, wrap,
              bulletLines * lineHeight + 200)

PdfJob(job) ==
    << Block("workHeading", TRUE, 6000,
             << Text(job.jobTitle \o Slash \o job.company, 0),
                Text(job.dates \o Slash \o job.location, 1200) >>,
             FALSE, margin, 0, 1200 + 1500) >>
    \o [i \in 1..Len(job.description) |-> PdfBullet(job.description[i])]
    \o << Gap(1000) >>

PdfWorkExperience(r) ==
    IF Len(r.workExperience) > 0
    THEN << printSectionTitle(Str("Work Experience")) >>
         \o Concat([i \in 1..Len(r.workExperience) |-> PdfJob(r.workExperience[i])])
    ELSE <<>>

PdfEdu(edu) ==
    << Block("eduHeading", TRUE, 4000,
             << Text(edu.degree, 0), Text(eduDetails(edu), 1200) >>,
             FALSE, margin, 0, 1200 + 1500) >>
    \o [i \in 1..Len(edu.details) |-> PdfBullet(edu.details[i])]
    \o << Gap(1000) >>

PdfEducation(r) ==
    IF Len(r.education) > 0
    THEN << printSectionTitle(Str("Education")) >>
         \o Concat([i \in 1..Len(r.education) |-> PdfEdu(r.education[i])])
    ELSE <<>>

PdfLine(line) ==
    LET text == IF isBullet(line) THEN <<Glyph, " ">> \o Substring(line, 2) ELSE line
        indent == IF isBullet(line) THEN 500 ELSE 0
        wrap == pageWidth - margin * 2 - indent
        textLines == splitTextToSize(text, wrap)
    IN  LineBlock(line, textLines * lineHeight, text, isBullet(line),
                  margin + indent, wrap, textLines * lineHeight + 200)

PdfOtherSection(section) ==
    << printSectionTitle(section.title) >>
    \o (LET lines == Split(section.body)
        IN  [i \in 1..Len(lines) |-> PdfLine(lines[i])])

PdfOtherSections(r) ==
    Concat([i \in 1..Len(r.otherSections) |-> PdfOtherSection(r.otherSections[i])])

PdfBlocks(r) ==
    PdfHeader(r) \o PdfSummary(r) \o PdfWorkExperience(r)
    \o PdfEducation(r) \o PdfOtherSections(r)

(***************************************************************************)
(* handleDownloadPdf (part_000)                                            *)
(***************************************************************************)
PdfHeaderSections(r) ==
    << Block("name", FALSE, 0, <<Text(r.name, 0)>>, FALSE, pageWidth \div 2, 0, 2000),
       Block("contact", FALSE, 0, <<Text(contactInfoSections(r), 0)>>, FALSE,
             pageWidth \div 2, 0, 3000) >>

\* one line of the body; a blank line emits nothing
PdfLineSections(line) ==
    LET trimmedLine == Trim(line)
    IN  IF StartsWith(trimmedLine, <<"-", " ">>)
        THEN LET bulletText == Substring(trimmedLine, 2)
                 wrap == pageWidth - (margin * 2) - 2000
                 textLines == splitTextToSize(bulletText, wrap)
             IN  << LineBlock(line, textLines * 1200, bulletText, TRUE,
                              margin + 2500, wrap, textLines * 1200) >>
        ELSE IF trimmedLine # <<>>
        THEN LET wrap == pageWidth - (margin * 2)
                 textLines == splitTextToSize(trimmedLine, wrap)
             IN  << LineBlock(line, textLines * 1200, trimmedLine, FALSE,
                              margin, wrap, textLines * 1200) >>
        ELSE <<>>

printSection(title, body) ==
    << Block("sectionTitle", TRUE, 4000, <<Text(ToUpperCase(title), 0)>>, FALSE,
             margin, 0, 800 + 1800) >>
    \o (LET lines == Split(body)
        IN  Concat([i \in 1..Len(lines) |-> PdfLineSections(lines[i])]))
    \o << Gap(1200) >>

PdfBlocksSections(r) ==
    PdfHeaderSections(r)
    \o printSection(Str("Summary"), r.summary)
    \o Concat([i \in 1..Len(r.sections) |->
                  printSection(r.sections[i].title, r.sections[i].body)])

(***************************************************************************)
(* The page: state and handlers                                            *)
(***************************************************************************)
Builds == {"page", "part_000"}

\* checkPageBreak comparing against the page bottom, not the bottom margin
checkPageBreakNoMargin(y, p, spaceNeeded) ==
    IF y + spaceNeeded > pageHeight
    THEN [yPos |-> margin, pages |-> p + 1]
    ELSE [yPos |-> y, pages |-> p]

\* checkPageBreak adding the page but leaving the cursor where it was
checkPageBreakKeepsCursor(y, p, spaceNeeded) ==
    IF y + spaceNeeded > pageHeight - margin
    THEN [yPos |-> y, pages |-> p + 1]
    ELSE [yPos |-> y, pages |-> p]

\* checkPageBreak adding pages until the block would fit
checkPageBreakSplitting(y, p, spaceNeeded) ==
    IF y + spaceNeeded > pageHeight - margin
    THEN [yPos |-> margin,
          pages |-> p + 1 + spaceNeeded \div (pageHeight - margin * 2)]
    ELSE [yPos |-> y, pages |-> p]

\* const checkPageBreak = (spaceNeeded) => { if (yPos + spaceNeeded >
\*   pageHeight - margin) { doc.addPage(); yPos = margin; } }
checkPageBreak(y, p, spaceNeeded) ==
    IF y + spaceNeeded > pageHeight - margin
    THEN [yPos |-> margin, pages |-> p + 1]
    ELSE [yPos |-> y, pages |-> p]

\* a cursor that lives outside the handler and is set once
InitialYPosCarried(b) ==
    IF pdfLog # <<>> THEN yPos ELSE IF b = "page" THEN 4000 ELSE 6000

\* let yPos = 40 (page.tsx), 60 (part_000)
InitialYPos(b) == IF b = "page" THEN 4000 ELSE 6000

Blocks(b, r) == IF b = "page" THEN PdfBlocks(r) ELSE PdfBlocksSections(r)

Children(b, r) == IF b = "page" THEN DocxChildren(r) ELSE DocxChildrenSections(r)

\* where the glyph of a bullet block is drawn: the first character of the
\* text at the block's x (page), doc.text('\u2022', margin + 10, yPos)
\* (part_000)
glyphX(b, block) == IF b = "page" THEN block.x ELSE margin + 1000

\* where the words of a bullet block start on its first line: behind the
\* glyph and the space in the same text (page), at the block's x (part_000)
wordsX(b, block) ==
    IF b = "page" THEN block.x + TextWidth(<<Glyph, " ">>) ELSE block.x

\* what the PDF holds of one emitted block: the block, the cursor and page
\* count checkPageBreak found, the page and the cursor the block starts at
Drawn(block, yBefore, pagesBefore, y, page) ==
    [role |-> block.role, check |-> block.check, need |-> block.need,
     texts |-> block.texts, bullet |-> block.bullet, x |-> block.x,
     wrap |-> block.wrap, advance |-> block.advance, line |-> block.line,
     yBefore |-> yBefore, pagesBefore |-> pagesBefore, y |-> y, page |-> page]

\* no export has run yet
RunInit == lastDocx = Null /\ lastPdf = Null

\* useState(null), useState(false) of Home; onSubmit not running
HomeInit ==
    /\ isLoading = FALSE
    /\ analysis = Null
    /\ suggestions = Null
    /\ toasts = <<>>
    /\ submitPc = "idle"
    /\ resumeFile = Null
    /\ extraction = Null
    /\ calls = Null
    /\ submits = 0

\* the greeting the chatbot page starts with
Greeting == [role |-> "model", content |-> Str("Hello")]

\* useState of ChatbotPage; no careerChat call in flight
ChatInit ==
    /\ messages = <<Greeting>>
    /\ input = <<>>
    /\ chatIsLoading = FALSE
    /\ chatCall = Null
    /\ chatResult = Null
    /\ chatToasts = 0

\* generateTailoredResume has not been called
FlowInit == flowCall = Null /\ flowOutput = Null

\* useState(null), useState(false); handleGenerateCoverLetter not running
CoverInit ==
    /\ coverLetter = Null
    /\ isCoverLetterDialogOpen = FALSE
    /\ isGeneratingCoverLetter = FALSE
    /\ coverCall = Null

Init ==
    /\ build \in Builds
    /\ tailoredResume = Null
    /\ docxState = "idle"
    /\ docChildren = <<>>
    /\ pdfPc = "idle"
    /\ pdfIdx = 0
    /\ yPos = 0
    /\ pages = 0
    /\ pdfLog = <<>>
    /\ RunInit
    /\ HomeInit
    /\ ChatInit
    /\ FlowInit
    /\ CoverInit

\* onSubmit: setTailoredResume(tailoredResumeResult)
setTailoredResume ==
    /\ tailoredResume = Null
    /\ pdfPc # "emit"
    /\ \E r \in (IF build = "page" THEN ResumeSet ELSE SectionsResumeSet) :
           tailoredResume' = r
    /\ UNCHANGED <<build, docxState, docChildren, pdfPc, pdfIdx, yPos, pages, pdfLog>>
    /\ UNCHANGED <<runVars, homeVars, chatVars, flowVars, coverVars>>

\* handleDownloadDocx: if (!tailoredResume) return; build the document, save
handleDownloadDocx ==
    /\ pdfPc # "emit"
    /\ docxState = "idle"
    /\ IF tailoredResume = Null
       THEN UNCHANGED <<docxState, docChildren>>
       ELSE /\ docChildren' = Children(build, tailoredResume)
            /\ docxState' = "saved"
    /\ UNCHANGED <<build, tailoredResume, pdfPc, pdfIdx, yPos, pages, pdfLog>>
    /\ UNCHANGED <<runVars, homeVars, chatVars, flowVars, coverVars>>

\* handleDownloadPdf: if (!tailoredResume) return; new jsPDF, let yPos
handleDownloadPdf ==
    /\ pdfPc = "idle"
    /\ IF tailoredResume = Null
       THEN UNCHANGED <<pdfPc, pdfIdx, yPos, pages, pdfLog>>
       ELSE /\ pdfPc' = "emit"
            /\ pdfIdx' = 1
            /\ yPos' = InitialYPos(build)
            /\ pages' = 1
            /\ pdfLog' = <<>>
    /\ UNCHANGED <<build, tailoredResume, docxState, docChildren>>
    /\ UNCHANGED <<runVars, homeVars, chatVars, flowVars, coverVars>>

\* handleDownloadPdf: the next block of the resume
EmitBlock ==
    /\ pdfPc = "emit"
    /\ pdfIdx <= Len(Blocks(build, tailoredResume))
    /\ LET block == Blocks(build, tailoredResume)[pdfIdx]
           at == IF block.check
                 THEN checkPageBreak(yPos, pages, block.need)
                 ELSE [yPos |-> yPos, pages |-> pages]
       IN  /\ yPos' = at.yPos + block.advance
           /\ pages' = at.pages
           /\ pdfLog' = IF block.texts # <<>>
                        THEN Append(pdfLog, Drawn(block, yPos, pages, at.yPos, at.pages))
                        ELSE pdfLog
    /\ pdfIdx' = pdfIdx + 1
    /\ UNCHANGED <<build, tailoredResume, docxState, docChildren, pdfPc>>
    /\ UNCHANGED <<runVars, homeVars, chatVars, flowVars, coverVars>>

\* handleDownloadPdf: doc.save('tailored-resume.pdf')
SavePdf ==
    /\ pdfPc = "emit"
    /\ pdfIdx > Len(Blocks(build, tailoredResume))
    /\ pdfPc' = "saved"
    /\ UNCHANGED <<build, tailoredResume, docxState, docChildren, pdfIdx, yPos, pages, pdfLog>>
    /\ UNCHANGED <<runVars, homeVars, chatVars, flowVars, coverVars>>

Next ==
    \/ setTailoredResume
    \/ handleDownloadDocx
    \/ handleDownloadPdf
    \/ EmitBlock
    \/ SavePdf

Spec == Init /\ [][Next]_vars

(***************************************************************************)
(* Exporting the same resume again                                         *)
(***************************************************************************)
\* the resumes exported twice
RerunResumes(b) ==
    IF b = "page"
    THEN BodyResumes \cup TitleResumes \cup OrderResumes
    ELSE SectionsResumeSet

\* a resume has been generated, nothing exported yet
RerunInit ==
    /\ build \in Builds
    /\ tailoredResume \in RerunResumes(build)
    /\ docxState = "idle"
    /\ docChildren = <<>>
    /\ pdfPc = "idle"
    /\ pdfIdx = 0
    /\ yPos = 0
    /\ pages = 0
    /\ pdfLog = <<>>
    /\ RunInit
    /\ HomeInit
    /\ ChatInit
    /\ FlowInit
    /\ CoverInit

\* handleDownloadDocx has returned and "Download DOCX" can be clicked again;
\* what the run built is remembered
DocxReturned ==
    /\ docxState = "saved"
    /\ pdfPc # "emit"
    /\ docxState' = "idle"
    /\ lastDocx' = [children |-> docChildren]
    /\ UNCHANGED <<build, tailoredResume, docChildren, pdfPc, pdfIdx, yPos, pages,
                   pdfLog, lastPdf, homeVars, chatVars, flowVars, coverVars>>

\* handleDownloadPdf has returned and "Download PDF" can be clicked again;
\* what the run drew, its page count and final cursor are remembered
PdfReturned ==
    /\ pdfPc = "saved"
    /\ pdfPc' = "idle"
    /\ lastPdf' = [log |-> pdfLog, pages |-> pages, yPos |-> yPos]
    /\ UNCHANGED <<build, tailoredResume, docxState, docChildren, pdfIdx, yPos,
                   pages, pdfLog, lastDocx, homeVars, chatVars, flowVars, coverVars>>

RerunNext ==
    \/ handleDownloadDocx
    \/ handleDownloadPdf
    \/ EmitBlock
    \/ SavePdf
    \/ DocxReturned
    \/ PdfReturned

RerunSpec == RerunInit /\ [][RerunNext]_vars

(***************************************************************************)
(* JSON values and the zod schemas of the flows                            *)
(***************************************************************************)
JString(v) == [t |-> "string", v |-> v]
JNull == [t |-> "null"]
JArray(items) == [t |-> "array", v |-> items]
\* fields: a record, one field per key the object has
JObject(fields) == [t |-> "object", v |-> fields]

Has(x, key) == key \in DOMAIN x.v
Without(fields, key) == [k \in DOMAIN fields \ {key} |-> fields[k]]

\* z.string()
ZString(x) == x.t = "string"

\* ResumeSectionSchema = z.object({title: z.string(), body: z.string()})
ResumeSectionSchema(x) ==
    /\ x.t = "object"
    /\ Has(x, "title") /\ ZString(x.v.title)
    /\ Has(x, "body") /\ ZString(x.v.body)

\* GenerateTailoredResumeOutputSchema
GenerateTailoredResumeOutputSchema(x) ==
    /\ x.t = "object"
    /\ \A key \in {"name", "email", "phone", "summary", "fullResumeText"} :
           Has(x, key) /\ ZString(x.v[key])
    /\ Has(x, "linkedin") => ZString(x.v.linkedin)
    /\ Has(x, "sections")
    /\ x.v.sections.t = "array"
    /\ \A i \in 1..Len(x.v.sections.v) : ResumeSectionSchema(x.v.sections.v[i])

\* CareerChatOutputSchema that does not look into resumeData
CareerChatOutputSchemaLoose(x) ==
    /\ x.t = "object"
    /\ Has(x, "response") /\ ZString(x.v.response)

\* CareerChatOutputSchema = z.object({response: z.string(),
\*     resumeData: GenerateTailoredResumeOutputSchema.optional()})
CareerChatOutputSchema(x) ==
    /\ x.t = "object"
    /\ Has(x, "response") /\ ZString(x.v.response)
    /\ Has(x, "resumeData") => GenerateTailoredResumeOutputSchema(x.v.resumeData)

\* what the model can answer to ai.generate: result.output
ResumeFields ==
    [name |-> JString(Str("n")), email |-> JString(Email),
     phone |-> JString(Phone), summary |-> JString(Str("s")),
     sections |-> JArray(<< JObject([title |-> JString(Str("Skills")),
                                     body |-> JString(Str("b"))]) >>),
     fullResumeText |-> JString(Str("f"))]

GoodResumeData ==
    { JObject(ResumeFields),
      JObject([k \in DOMAIN ResumeFields \cup {"linkedin"} |->
                  IF k = "linkedin" THEN JString(Str("in/x")) ELSE ResumeFields[k]]),
      JObject([ResumeFields EXCEPT !.sections = JArray(<<>>)]) }

BadResumeData ==
    { JNull,
      JObject(Without(ResumeFields, "name")),
      JObject(Without(ResumeFields, "sections")),
      JObject([ResumeFields EXCEPT !.summary = JNull]),
      JObject([ResumeFields EXCEPT !.sections = JString(Str("b"))]),
      JObject([ResumeFields EXCEPT !.sections =
                  JArray(<< JObject([title |-> JString(Str("Skills"))]) >>)]),
      JObject([k \in DOMAIN ResumeFields \cup {"linkedin"} |->
                  IF k = "linkedin" THEN JNull ELSE ResumeFields[k]]) }

Responses == {Str("r1"), Str("r2")}

LlmOutputs ==
    {JObject([response |-> JString(r)]) : r \in Responses}
    \cup {JObject([response |-> JString(Str("r1")), resumeData |-> d]) :
             d \in GoodResumeData \cup BadResumeData}
    \cup {JNull, JObject([resumeData |-> JObject(ResumeFields)]),
          JObject([response |-> JNull])}

(***************************************************************************)
(* The chatbot page: handleSendMessage and the careerChat flow             *)
(***************************************************************************)
\* what the user can have typed into the message box
Inputs == {<<>>, <<" ">>, Str("hi"), Str("done"), <<" ", "hi">>}

Sorry == [role |-> "model", content |-> Str("Sorry, I ran into an error.")]

\* the history sent with the new user message already in it
historyWithNewMessage(msgs, userMessage) ==
    [i \in 1..(Len(msgs) + 1) |->
        IF i <= Len(msgs)
        THEN [role |-> msgs[i].role, content |-> msgs[i].content]
        ELSE [role |-> userMessage.role, content |-> userMessage.content]]

\* const history = messages.map((msg) => ({role: msg.role, content: msg.content}))
history(msgs, userMessage) ==
    [i \in 1..Len(msgs) |-> [role |-> msgs[i].role, content |-> msgs[i].content]]

\* the "Conversation History" part of systemPrompt: one line per turn of
\* history, then the line of the new message
Conversation(hist, message) ==
    [i \in 1..Len(hist) |-> [role |-> hist[i].role, content |-> hist[i].content]]
    \o << [role |-> "user", content |-> message] >>

\* nothing of the Home page but its initial state
ExportIdle ==
    /\ tailoredResume = Null
    /\ docxState = "idle"
    /\ docChildren = <<>>
    /\ pdfPc = "idle"
    /\ pdfIdx = 0
    /\ yPos = 0
    /\ pages = 0
    /\ pdfLog = <<>>
    /\ RunInit

\* the chatbot page has been opened
ChatPageInit ==
    /\ build = "page"
    /\ ExportIdle
    /\ HomeInit
    /\ ChatInit
    /\ FlowInit
    /\ CoverInit

homeAll == <<build, tailoredResume, docxState, docChildren,
             pdfPc, pdfIdx, yPos, pages, pdfLog, runVars, homeVars>>

\* onChange={(e) => setInput(e.target.value)}, the box disabled while loading
setInput ==
    /\ ~chatIsLoading
    /\ \E v \in Inputs \ {input} : input' = v
    /\ UNCHANGED <<messages, chatIsLoading, chatCall, chatResult, chatToasts, homeAll, flowVars, coverVars>>

\* handleSendMessage without its early return
handleSendMessageUnguarded ==
    /\ Len(messages) < MaxTurns
    /\ LET userMessage == [role |-> "user", content |-> input]
       IN  /\ messages' = Append(messages, userMessage)
           /\ input' = <<>>
           /\ chatIsLoading' = TRUE
           /\ chatCall' = [history |-> history(messages, userMessage),
                           message |-> input,
                           originalMessages |-> messages]
           /\ chatResult' = Null
    /\ UNCHANGED <<chatToasts, homeAll, flowVars, coverVars>>

\* handleSendMessage up to await careerChat({history, message: messageToSend})
handleSendMessage ==
    /\ Len(messages) < MaxTurns
    /\ IF Trim(input) = <<>> \/ chatIsLoading
       THEN UNCHANGED <<messages, input, chatIsLoading, chatCall, chatResult>>
       ELSE LET userMessage == [role |-> "user", content |-> input]
            IN  /\ messages' = Append(messages, userMessage)
                /\ input' = <<>>
                /\ chatIsLoading' = TRUE
                /\ chatCall' = [history |-> history(messages, userMessage),
                                message |-> input,
                                originalMessages |-> messages]
                /\ chatResult' = Null
    /\ UNCHANGED <<chatToasts, homeAll, flowVars, coverVars>>

\* careerChatFlow returns result.output and the flow's outputSchema accepts
\* it; handleSendMessage goes on after the await, then finally
careerChatReturns ==
    /\ chatCall # Null
    /\ \E output \in LlmOutputs :
           /\ CareerChatOutputSchema(output)
           /\ chatResult' = [prompt |-> Conversation(chatCall.history, chatCall.message),
                             result |-> output]
           /\ messages' = Append(messages,
                                 [role |-> "model", content |-> output.v.response.v])
    /\ chatIsLoading' = FALSE
    /\ chatCall' = Null
    /\ UNCHANGED <<input, chatToasts, homeAll, flowVars, coverVars>>

\* careerChat throws (the call fails, or the flow's outputSchema rejects
\* result.output); handleSendMessage: catch, then finally
careerChatThrows ==
    /\ chatCall # Null
    /\ messages' = Append(chatCall.originalMessages, Sorry)
    /\ chatToasts' = chatToasts + 1
    /\ chatIsLoading' = FALSE
    /\ chatCall' = Null
    /\ UNCHANGED <<input, chatResult, homeAll, flowVars, coverVars>>

ChatNext ==
    \/ setInput
    \/ handleSendMessage
    \/ careerChatReturns
    \/ careerChatThrows

ChatSpec == ChatPageInit /\ [][ChatNext]_vars

(***************************************************************************)
(* The Home page: onSubmit, handleGenerateCoverLetter                      *)
(*   build "page"   src/src/app/page.tsx 45-167   (resume file, the two    *)
(*                  later AI calls awaited with Promise.all)               *)
(*   build "paste"  src/src/app/page.tsx 715-770  (pasted resume text,     *)
(*                  the second AI call made from a timer)                  *)
(***************************************************************************)
HomeBuilds == {"page", "paste"}

\* the file of the form: its MIME type, whether the FileReader can read it,
\* whether pdf.js / mammoth can parse it, the text it holds
File(type, readable, parses, text) ==
    [type |-> type, readable |-> readable, parses |-> parses, text |-> text]

Docx == "application/vnd.openxmlformats-officedocument.wordprocessingml.document"

Files ==
    {File("application/pdf", rd, ps, t) :
        rd \in BOOLEAN, ps \in BOOLEAN, t \in {Str("resume")}}
    \cup {File("application/pdf", TRUE, TRUE, t) : t \in {<<>>, <<" ">>}}
    \cup {File(Docx, TRUE, ps, Str("resume")) : ps \in BOOLEAN}
    \cup {File("text/plain", rd, TRUE, Str("resume")) : rd \in BOOLEAN}
    \cup {File("text/plain", TRUE, TRUE, <<NL>>), File("image/png", TRUE, TRUE, <<>>)}

\* a thrown Error object / a string given to reject()
Error(message) == [kind |-> "Error", message |-> message]
Rejection(reason) == [kind |-> "string", reason |-> reason]

\* error.message, undefined when the thrown value is a string
messageOf(error) == IF error.kind = "Error" THEN error.message ELSE ""

\* the promise of an AI call or of extractTextFromFile
NotCalled == [state |-> "none"]
Pending == [state |-> "pending"]
Fulfilled(value) == [state |-> "fulfilled", value |-> value]
Rejected(error) == [state |-> "rejected", error |-> error]

\* the results of the flows for a submission
Keywords(n) == [keywords |-> n]
SuggestedEdits(n) == [suggestedEdits |-> n]
HomeResumes ==
    {Resume(undefined, Phone, Email, undefined, a, <<>>, <<>>, <<>>, <<>>) :
        a \in {undefined, Str("NYC")}}

\* Home has been opened, nothing submitted
HomePageInit ==
    /\ build \in HomeBuilds
    /\ ExportIdle
    /\ HomeInit
    /\ ChatInit
    /\ FlowInit
    /\ CoverInit

exportAll == <<build, docxState, docChildren, pdfPc, pdfIdx, yPos, pages,
               pdfLog, runVars>>

\* toast({title, description, variant: "destructive"})
toast(title, description) ==
    toasts' = Append(toasts, [title |-> title, description |-> description])

\* onSubmit (page): catch (error: any) {toast(...)} finally {setIsLoading(false)}
Catch(error) ==
    /\ toast("An Error Occurred",
             IF messageOf(error) # "" THEN messageOf(error)
             ELSE "Could not process your request. Please check the files and try again.")
    /\ isLoading' = FALSE
    /\ submitPc' = "idle"

\* onSubmit without the four setters that clear the results
onSubmitKeepsResults ==
    /\ submitPc = "idle"
    /\ ~isLoading
    /\ pdfPc # "emit"
    /\ submits < MaxSubmits
    /\ submits' = submits + 1
    /\ isLoading' = TRUE
    /\ UNCHANGED <<analysis, suggestions>>
    /\ IF build = "page"
       THEN /\ UNCHANGED <<tailoredResume, coverLetter>>
            /\ \E file \in Files :
                  /\ resumeFile' = file
                  /\ extraction' =
                        IF file.type \in {"application/pdf", Docx, "text/plain"}
                        THEN Pending
                        ELSE Rejected(Rejection("Unsupported file type. Please upload a PDF, DOCX, or TXT file."))
            /\ submitPc' = "extract"
            /\ calls' = [analysis |-> NotCalled, suggestions |-> NotCalled,
                         tailoredResume |-> NotCalled]
       ELSE /\ submitPc' = "analyze"
            /\ calls' = [analysis |-> Pending, suggestions |-> NotCalled,
                         tailoredResume |-> NotCalled]
            /\ UNCHANGED <<tailoredResume, resumeFile, extraction, coverLetter>>
    /\ UNCHANGED <<isCoverLetterDialogOpen, isGeneratingCoverLetter, coverCall>>
    /\ UNCHANGED <<toasts, exportAll, chatVars, flowVars>>

\* onSubmit up to its first await: await extractTextFromFile (page), where
\* the Promise executor sets reader.onload and starts the read or rejects;
\* await analyzeJobDescription (paste)
onSubmit ==
    /\ submitPc = "idle"
    /\ ~isLoading
    /\ pdfPc # "emit"
    /\ submits < MaxSubmits
    /\ submits' = submits + 1
    /\ isLoading' = TRUE
    /\ analysis' = Null
    /\ suggestions' = Null
    /\ IF build = "page"
       THEN /\ tailoredResume' = Null
            /\ coverLetter' = Null
            /\ \E file \in Files :
                  /\ resumeFile' = file
                  /\ extraction' =
                        IF file.type \in {"application/pdf", Docx, "text/plain"}
                        THEN Pending
                        ELSE Rejected(Rejection("Unsupported file type. Please upload a PDF, DOCX, or TXT file."))
            /\ submitPc' = "extract"
            /\ calls' = [analysis |-> NotCalled, suggestions |-> NotCalled,
                         tailoredResume |-> NotCalled]
       ELSE /\ submitPc' = "analyze"
            /\ calls' = [analysis |-> Pending, suggestions |-> NotCalled,
                         tailoredResume |-> NotCalled]
            /\ UNCHANGED <<tailoredResume, resumeFile, extraction, coverLetter>>
    /\ UNCHANGED <<isCoverLetterDialogOpen, isGeneratingCoverLetter, coverCall>>
    /\ UNCHANGED <<toasts, exportAll, chatVars, flowVars>>

\* reader.onload: the file has been read; pdf.js / mammoth parse it and the
\* promise of extractTextFromFile is resolved, or rejected with a string
readerOnload ==
    /\ extraction = Pending
    /\ resumeFile.readable
    /\ extraction' =
          IF resumeFile.type = "text/plain" \/ resumeFile.parses
          THEN Fulfilled(resumeFile.text)
          ELSE IF resumeFile.type = "application/pdf"
          THEN Rejected(Rejection("Failed to parse PDF file. It might be corrupted or protected."))
          ELSE Rejected(Rejection("Failed to parse DOCX file."))
    /\ UNCHANGED <<tailoredResume, isLoading, analysis, suggestions, toasts, submitPc,
                   resumeFile, calls, submits, exportAll, chatVars, flowVars, coverVars>>

\* the FileReader cannot read the file: it fires its error event, for which
\* extractTextFromFile sets no handler; the promise stays pending
readerError ==
    /\ extraction = Pending
    /\ ~resumeFile.readable
    /\ extraction' = [state |-> "pending", reader |-> "error"]
    /\ UNCHANGED <<tailoredResume, isLoading, analysis, suggestions, toasts, submitPc,
                   resumeFile, calls, submits, exportAll, chatVars, flowVars, coverVars>>

\* onSubmit without the empty-text check
afterExtractUnchecked ==
    /\ submitPc = "extract"
    /\ extraction.state \in {"fulfilled", "rejected"}
    /\ IF extraction.state = "rejected"
       THEN Catch(extraction.error) /\ UNCHANGED calls
       ELSE /\ submitPc' = "analyze"
            /\ calls' = [calls EXCEPT !.analysis = Pending]
            /\ UNCHANGED <<isLoading, toasts>>
    /\ UNCHANGED <<tailoredResume, analysis, suggestions, resumeFile, extraction,
                   submits, exportAll, chatVars, flowVars, coverVars>>

\* onSubmit (page) after await extractTextFromFile: the empty-text check,
\* then the call of analyzeJobDescription
afterExtract ==
    /\ submitPc = "extract"
    /\ extraction.state \in {"fulfilled", "rejected"}
    /\ IF extraction.state = "rejected"
       THEN Catch(extraction.error) /\ UNCHANGED calls
       ELSE IF Trim(extraction.value) = <<>>
       THEN /\ Catch(Error("Could not extract any text from the resume file. It might be empty or an image-based file."))
            /\ UNCHANGED calls
       ELSE /\ submitPc' = "analyze"
            /\ calls' = [calls EXCEPT !.analysis = Pending]
            /\ UNCHANGED <<isLoading, toasts>>
    /\ UNCHANGED <<tailoredResume, analysis, suggestions, resumeFile, extraction,
                   submits, exportAll, chatVars, flowVars, coverVars>>

\* the error an AI flow throws
FlowError == Error("The flow failed.")

\* finally {setIsLoading(false)}: the handler has ended
Finally == isLoading' = FALSE /\ submitPc' = "idle"

\* analyzeJobDescription resolves: setAnalysis(analysisResult.keywords), then
\* the two calls are made and awaited with Promise.all (page), or the timer
\* of 700 ms is set (paste)
analyzeJobDescriptionResolves ==
    /\ submitPc = "analyze"
    /\ analysis' = Keywords(submits)
    /\ IF build = "page"
       THEN /\ calls' = [analysis |-> Fulfilled(Keywords(submits)),
                         suggestions |-> Pending, tailoredResume |-> Pending]
            /\ submitPc' = "parallel"
       ELSE /\ calls' = [calls EXCEPT !.analysis = Fulfilled(Keywords(submits))]
            /\ submitPc' = "timer"
    /\ UNCHANGED <<tailoredResume, isLoading, suggestions, toasts, resumeFile,
                   extraction, submits, exportAll, chatVars, flowVars, coverVars>>

\* analyzeJobDescription rejects: the catch of onSubmit
analyzeJobDescriptionRejects ==
    /\ submitPc = "analyze"
    /\ calls' = [calls EXCEPT !.analysis = Rejected(FlowError)]
    /\ IF build = "page"
       THEN Catch(FlowError)
       ELSE /\ toast("Error Analyzing Job Description",
                     "Could not analyze the job description. Please check the input and try again.")
            /\ Finally
    /\ UNCHANGED <<tailoredResume, analysis, suggestions, resumeFile, extraction,
                   submits, exportAll, chatVars, flowVars, coverVars>>

\* setTimeout(async () => {...}, 700) fires (paste): suggestResumeEdits is called
timerFires ==
    /\ submitPc = "timer"
    /\ submitPc' = "suggest"
    /\ calls' = [calls EXCEPT !.suggestions = Pending]
    /\ UNCHANGED <<tailoredResume, isLoading, analysis, suggestions, toasts,
                   resumeFile, extraction, submits, exportAll, chatVars, flowVars, coverVars>>

\* const [suggestionsResult, tailoredResumeResult] = await Promise.all([...])
\* has both results: setSuggestions, setTailoredResume, finally
PromiseAllResolves(settled) ==
    /\ suggestions' = settled.suggestions.value.suggestedEdits
    /\ tailoredResume' = settled.tailoredResume.value
    /\ Finally
    /\ UNCHANGED toasts

\* each result stored as its own promise settles, the handler ending with
\* the second
PromiseAllStepEach(settled) ==
    /\ calls' = settled
    /\ suggestions' = IF settled.suggestions.state = "fulfilled"
                      THEN settled.suggestions.value.suggestedEdits ELSE suggestions
    /\ tailoredResume' = IF settled.tailoredResume.state = "fulfilled"
                         THEN settled.tailoredResume.value ELSE tailoredResume
    /\ IF \A c \in {"suggestions", "tailoredResume"} : settled[c].state # "pending"
       THEN Finally ELSE UNCHANGED <<isLoading, submitPc>>
    /\ UNCHANGED toasts

\* a promise given to Promise.all settles: with both fulfilled onSubmit goes
\* on; at the first rejection Promise.all rejects and the catch runs; once
\* onSubmit has ended a result is dropped
PromiseAllStep(settled) ==
    /\ calls' = settled
    /\ IF submitPc # "parallel"
       THEN UNCHANGED <<tailoredResume, isLoading, suggestions, toasts, submitPc>>
       ELSE IF \E c \in {"suggestions", "tailoredResume"} : settled[c].state = "rejected"
       THEN Catch(FlowError) /\ UNCHANGED <<tailoredResume, suggestions>>
       ELSE IF \A c \in {"suggestions", "tailoredResume"} : settled[c].state = "fulfilled"
       THEN PromiseAllResolves(settled)
       ELSE UNCHANGED <<tailoredResume, isLoading, suggestions, toasts, submitPc>>

suggestResumeEditsResolves ==
    /\ calls # Null
    /\ calls.suggestions = Pending
    /\ LET result == [suggestedEdits |-> SuggestedEdits(submits)]
       IN  IF build = "page"
           THEN PromiseAllStep([calls EXCEPT !.suggestions = Fulfilled(result)])
           ELSE /\ calls' = [calls EXCEPT !.suggestions = Fulfilled(result)]
                /\ suggestions' = result.suggestedEdits
                /\ Finally
                /\ UNCHANGED <<tailoredResume, toasts>>
    /\ UNCHANGED <<analysis, resumeFile, extraction, submits, exportAll, chatVars, flowVars, coverVars>>

suggestResumeEditsRejects ==
    /\ calls # Null
    /\ calls.suggestions = Pending
    /\ IF build = "page"
       THEN PromiseAllStep([calls EXCEPT !.suggestions = Rejected(FlowError)])
       ELSE /\ calls' = [calls EXCEPT !.suggestions = Rejected(FlowError)]
            /\ toast("Error Generating Suggestions",
                     "Could not generate resume suggestions. Please try again.")
            /\ Finally
            /\ UNCHANGED <<tailoredResume, suggestions>>
    /\ UNCHANGED <<analysis, resumeFile, extraction, submits, exportAll, chatVars, flowVars, coverVars>>

generateTailoredResumeResolves ==
    /\ calls # Null
    /\ calls.tailoredResume = Pending
    /\ \E r \in HomeResumes :
           PromiseAllStep([calls EXCEPT !.tailoredResume = Fulfilled(r)])
    /\ UNCHANGED <<analysis, resumeFile, extraction, submits, exportAll, chatVars, flowVars, coverVars>>

generateTailoredResumeRejects ==
    /\ calls # Null
    /\ calls.tailoredResume = Pending
    /\ PromiseAllStep([calls EXCEPT !.tailoredResume = Rejected(FlowError)])
    /\ UNCHANGED <<analysis, resumeFile, extraction, submits, exportAll, chatVars, flowVars, coverVars>>

\* the job description in the form: that of the latest submission
formJobDescription == submits

\* result.coverLetter of generateCoverLetter({candidateName, resumeText,
\* jobDescription})
CoverLetter(candidateName, resumeText, jobDescription) ==
    [candidateName |-> candidateName, resumeText |-> resumeText,
     jobDescription |-> jobDescription]

\* handleGenerateCoverLetter up to its first await: the button is enabled
\* with a tailored resume, no submission and no cover letter in progress
handleGenerateCoverLetter ==
    /\ tailoredResume # Null
    /\ ~isLoading
    /\ ~isGeneratingCoverLetter
    /\ pdfPc # "emit"
    /\ resumeFile # Null
    /\ Len(toasts) < MaxToasts
    /\ isGeneratingCoverLetter' = TRUE
    /\ coverLetter' = Null
    /\ coverCall' = [pc |-> "extract", tailoredResume |-> tailoredResume,
                     file |-> resumeFile]
    /\ UNCHANGED <<isCoverLetterDialogOpen, tailoredResume, homeVars, exportAll,
                   chatVars, flowVars>>

\* the catch and finally of handleGenerateCoverLetter
CoverLetterCatch ==
    /\ toast("Cover Letter Error",
             "Could not generate the cover letter. Please try again.")
    /\ isGeneratingCoverLetter' = FALSE
    /\ coverCall' = Null
    /\ UNCHANGED <<coverLetter, isCoverLetterDialogOpen>>

\* await extractTextFromFile(form.getValues('resumeFile')) has settled:
\* generateCoverLetter is called with the name of the tailored resume of the
\* render that started the handler and the job description now in the form
coverLetterExtracted ==
    /\ coverCall # Null
    /\ coverCall.pc = "extract"
    /\ coverCall.file.readable
    /\ IF coverCall.file.type = "text/plain" \/ coverCall.file.parses
       THEN /\ coverCall' = [pc |-> "generate",
                             tailoredResume |-> coverCall.tailoredResume,
                             file |-> coverCall.file,
                             jobDescription |-> formJobDescription]
            /\ UNCHANGED <<toasts, coverLetter, isCoverLetterDialogOpen,
                           isGeneratingCoverLetter>>
       ELSE CoverLetterCatch
    /\ UNCHANGED <<build, tailoredResume, isLoading, analysis, suggestions, submitPc,
                   resumeFile, extraction, calls, submits, exportAll, chatVars,
                   flowVars>>

\* generateCoverLetter resolves: setCoverLetter(result.coverLetter),
\* setIsCoverLetterDialogOpen(true), finally
generateCoverLetterResolves ==
    /\ coverCall # Null
    /\ coverCall.pc = "generate"
    /\ coverLetter' = CoverLetter(coverCall.tailoredResume.name, coverCall.file.text,
                                  coverCall.jobDescription)
    /\ isCoverLetterDialogOpen' = TRUE
    /\ isGeneratingCoverLetter' = FALSE
    /\ coverCall' = Null
    /\ UNCHANGED <<tailoredResume, homeVars, exportAll, chatVars, flowVars>>

\* generateCoverLetter rejects: the catch of handleGenerateCoverLetter
generateCoverLetterRejects ==
    /\ coverCall # Null
    /\ coverCall.pc = "generate"
    /\ CoverLetterCatch
    /\ UNCHANGED <<build, tailoredResume, isLoading, analysis, suggestions, submitPc,
                   resumeFile, extraction, calls, submits, exportAll, chatVars,
                   flowVars>>

\* the dialog of the cover letter is closed: onOpenChange, the Close button
closeCoverLetterDialog ==
    /\ isCoverLetterDialogOpen
    /\ isCoverLetterDialogOpen' = FALSE
    /\ UNCHANGED <<coverLetter, isGeneratingCoverLetter, coverCall, tailoredResume,
                   homeVars, exportAll, chatVars, flowVars>>

HomeNext ==
    \/ onSubmit
    \/ readerOnload
    \/ readerError
    \/ afterExtract
    \/ analyzeJobDescriptionResolves
    \/ analyzeJobDescriptionRejects
    \/ timerFires
    \/ suggestResumeEditsResolves
    \/ suggestResumeEditsRejects
    \/ generateTailoredResumeResolves
    \/ generateTailoredResumeRejects
    \/ handleGenerateCoverLetter
    \/ coverLetterExtracted
    \/ generateCoverLetterResolves
    \/ generateCoverLetterRejects
    \/ closeCoverLetterDialog
    \/ handleDownloadDocx
    \/ handleDownloadPdf
    \/ EmitBlock
    \/ SavePdf

HomeSpec == HomePageInit /\ [][HomeNext]_vars

\* the event loop runs every continuation that is ready, the FileReader
\* fires load or error, the timer fires, every flow call settles
FairHomeSpec ==
    /\ HomeSpec
    /\ WF_vars(readerOnload)
    /\ WF_vars(readerError)
    /\ WF_vars(afterExtract)
    /\ WF_vars(analyzeJobDescriptionResolves \/ analyzeJobDescriptionRejects)
    /\ WF_vars(timerFires)
    /\ WF_vars(suggestResumeEditsResolves \/ suggestResumeEditsRejects)
    /\ WF_vars(generateTailoredResumeResolves \/ generateTailoredResumeRejects)
    /\ WF_vars(coverLetterExtracted)
    /\ WF_vars(generateCoverLetterResolves \/ generateCoverLetterRejects)
    /\ WF_vars(EmitBlock)
    /\ WF_vars(SavePdf)

(***************************************************************************)
(* generateTailoredResume: src/src/ai/flows/generate-tailored-resume.ts    *)
(***************************************************************************)
\* a key the object does not have
Absent == [t |-> "absent"]

\* the object with the keys of fields whose value is not Absent
Object(fields) ==
    JObject([k \in {key \in DOMAIN fields : fields[key] # Absent} |-> fields[k]])

GoodSection == JObject([title |-> JString(Str("Skills")), body |-> JString(Str("b"))])

\* what the prompt can give the flow as output
RawOutputs ==
    {JNull} \cup
    {Object([name |-> n, email |-> e, phone |-> JString(Phone), linkedin |-> l,
             summary |-> JString(Str("s")), sections |-> sec,
             fullResumeText |-> JString(Str("f"))]) :
        n \in {Absent, JNull, JString(<<>>), JString(Str("n"))},
        e \in {Absent, JNull, JString(Email)},
        l \in {Absent, JNull, JString(Str("in/x"))},
        sec \in {Absent, JString(Str("b")), JArray(<<>>), JArray(<<GoodSection>>),
                 JArray(<<GoodSection, JObject([title |-> JString(Str("Skills"))])>>)}}

\* an issue of a schema validation: the path of the value that does not fit
Issue(path) == [path |-> path]

\* a key of z.object whose schema is z.string(): absent or not a string
Required(x, key, path) ==
    IF Has(x, key) /\ ZString(x.v[key]) THEN {} ELSE {Issue(Append(path, key))}

\* ResumeSectionSchema
ResumeSectionSchemaIssues(x, path) ==
    IF x.t # "object" THEN {Issue(path)}
    ELSE Required(x, "title", path) \cup Required(x, "body", path)

\* GenerateTailoredResumeOutputSchema with email: z.string().optional()
GenerateTailoredResumeOutputSchemaEmailOptional(x) ==
    IF x.t # "object" THEN {Issue(<<>>)}
    ELSE UNION {Required(x, key, <<>>) :
                   key \in {"name", "phone", "summary", "fullResumeText"}}
         \cup (IF Has(x, "email") /\ ~ZString(x.v.email)
               THEN {Issue(<<"email">>)} ELSE {})
         \cup (IF Has(x, "linkedin") /\ ~ZString(x.v.linkedin)
               THEN {Issue(<<"linkedin">>)} ELSE {})
         \cup (IF ~Has(x, "sections") \/ x.v.sections.t # "array"
               THEN {Issue(<<"sections">>)}
               ELSE UNION {ResumeSectionSchemaIssues(x.v.sections.v[i], <<"sections", i>>) :
                              i \in 1..Len(x.v.sections.v)})

\* GenerateTailoredResumeOutputSchema: every issue of the value
GenerateTailoredResumeOutputSchemaIssues(x) ==
    IF x.t # "object" THEN {Issue(<<>>)}
    ELSE UNION {Required(x, key, <<>>) :
                   key \in {"name", "email", "phone", "summary", "fullResumeText"}}
         \cup (IF Has(x, "linkedin") /\ ~ZString(x.v.linkedin)
               THEN {Issue(<<"linkedin">>)} ELSE {})
         \cup (IF ~Has(x, "sections") \/ x.v.sections.t # "array"
               THEN {Issue(<<"sections">>)}
               ELSE UNION {ResumeSectionSchemaIssues(x.v.sections.v[i], <<"sections", i>>) :
                              i \in 1..Len(x.v.sections.v)})

\* the error of a failed schema validation
ValidationError(issues) == [kind |-> "Error", issues |-> issues]

FlowPageInit ==
    /\ build = "part_000"
    /\ ExportIdle
    /\ HomeInit
    /\ ChatInit
    /\ FlowInit
    /\ CoverInit

\* generateTailoredResume(input): return generateTailoredResumeFlow(input)
generateTailoredResume ==
    /\ flowCall # Pending
    /\ flowCall' = Pending
    /\ flowOutput' = Null
    /\ UNCHANGED <<homeAll, chatVars, coverVars>>

\* const {output} = await prompt(input)
promptReturns ==
    /\ flowCall = Pending
    /\ flowOutput = Null
    /\ \E output \in RawOutputs : flowOutput' = output
    /\ UNCHANGED <<flowCall, homeAll, chatVars, coverVars>>

\* prompt(input) throws
promptThrows ==
    /\ flowCall = Pending
    /\ flowOutput = Null
    /\ flowCall' = Rejected(FlowError)
    /\ UNCHANGED <<flowOutput, homeAll, chatVars, coverVars>>

\* return output!: the flow's outputSchema is applied to what it returns
generateTailoredResumeFlowReturns ==
    /\ flowCall = Pending
    /\ flowOutput # Null
    /\ LET issues == GenerateTailoredResumeOutputSchemaIssues(flowOutput)
       IN  flowCall' = IF issues = {} THEN Fulfilled(flowOutput)
                       ELSE Rejected(ValidationError(issues))
    /\ UNCHANGED <<flowOutput, homeAll, chatVars, coverVars>>

FlowNext ==
    \/ generateTailoredResume
    \/ promptReturns
    \/ promptThrows
    \/ generateTailoredResumeFlowReturns

FlowSpec == FlowPageInit /\ [][FlowNext]_vars

(***************************************************************************)
(* Properties                                                              *)
(***************************************************************************)
Indices(seq) == 1..Len(seq)

\* the bottom of the printable area
PrintableLimit == pageHeight - margin

\* a block taller than the printable height of one page
Oversize(rec) == rec.need > pageHeight - margin * 2

\* the emitted block found checkPageBreak's condition true
Overflows(rec) == rec.yBefore + rec.need > PrintableLimit

\* C1: pagination rule.  Every block emitted after checkPageBreak(h): if
\* yPos + h > pageHeight - margin exactly one page was added and the block
\* starts with the cursor at margin; otherwise page count and cursor are as
\* they were.  The page count is one plus the number of such breaks.
C1_PageBreakRule ==
    /\ \A i \in Indices(pdfLog) :
          LET rec == pdfLog[i]
          IN  IF rec.check /\ Overflows(rec)
              THEN rec.page = rec.pagesBefore + 1 /\ rec.y = margin
              ELSE rec.page = rec.pagesBefore /\ rec.y = rec.yBefore
    /\ pdfPc # "idle" =>
          pages = 1 + Cardinality({i \in Indices(pdfLog) :
                                      pdfLog[i].check /\ Overflows(pdfLog[i])})

\* C1 witness: a saved PDF whose last block found the cursor past the limit
\* and was drawn on a new page from the top margin, after an earlier block
\* that needed no break
C1_Witness ==
    /\ pdfPc = "saved"
    /\ Len(pdfLog) >= 2
    /\ LET last == pdfLog[Len(pdfLog)]
       IN  /\ last.check /\ Overflows(last)
           /\ last.y = margin /\ last.page = last.pagesBefore + 1
    /\ \E i \in Indices(pdfLog) : pdfLog[i].check /\ ~Overflows(pdfLog[i])

\* C2: no block is split across pages.  Every block emitted by
\* handleDownloadPdf whose height is at most pageHeight - 2*margin starts
\* at or below the top margin and ends at or above the bottom margin, and
\* so does each of its doc.text calls.
C2_BlockOnOnePage ==
    \A i \in Indices(pdfLog) :
        LET rec == pdfLog[i]
        IN  (rec.check /\ ~Oversize(rec)) =>
                /\ rec.y >= margin
                /\ rec.y + rec.need <= PrintableLimit
                /\ \A k \in Indices(rec.texts) :
                      /\ rec.y + rec.texts[k].dy >= margin
                      /\ rec.y + rec.texts[k].dy <= PrintableLimit

\* C2 witness: a bullet that did not fit below the cursor and was moved
\* whole to the top of the next page, where it fits
C2_Witness ==
    /\ build = "page"
    /\ \E i \in Indices(pdfLog) :
          /\ pdfLog[i].check /\ ~Oversize(pdfLog[i]) /\ Overflows(pdfLog[i])
          /\ pdfLog[i].role = "bullet"
          /\ pdfLog[i].y = margin
          /\ pdfLog[i].page = pdfLog[i].pagesBefore + 1

\* C3: a block taller than one printable page gets at most one page break,
\* is drawn whole from the cursor checkPageBreak leaves (running past the
\* bottom margin), and no block adds more than one page.  Emission ends:
\* the handler is always at one of the finitely many blocks or past the last
\* (where it saves), and every step moves on to the next block or saves.
C3_OversizeInv ==
    /\ \A i \in Indices(pdfLog) :
          LET rec == pdfLog[i]
          IN  /\ rec.page <= rec.pagesBefore + 1
              /\ (rec.check /\ Oversize(rec)) =>
                    /\ rec.y = margin
                    /\ rec.y + rec.need > PrintableLimit
                    /\ Len(rec.texts) = 1
    /\ pdfPc # "idle" => pages <= 1 + Len(pdfLog)
    /\ pdfPc = "emit" => pdfIdx \in 1..(Len(Blocks(build, tailoredResume)) + 1)

C3_Progress ==
    pdfPc = "emit" =>
        \/ pdfPc' = "saved"
        \/ pdfPc' = "emit" /\ pdfIdx' = pdfIdx + 1 /\ pages' <= pages + 1

C3_OversizeOverflows == []C3_OversizeInv /\ [][C3_Progress]_vars

\* C3 witness: a saved PDF holding an oversize block and a block after it
C3_Witness ==
    /\ pdfPc = "saved"
    /\ \E i \in Indices(pdfLog) :
          /\ pdfLog[i].check /\ Oversize(pdfLog[i])
          /\ i < Len(pdfLog)
          /\ pdfLog[i].page = pdfLog[i].pagesBefore + 1

(***************************************************************************)
(* What an export holds                                                    *)
(***************************************************************************)
Item(text, bullet) == [text |-> text, bullet |-> bullet]

NotSpacer(p) == p.role # "spacer"

IsLine(p) == p.role = "line"

\* the (text, is-bullet) items of the DOCX, spacer paragraphs left out
DocxContent ==
    LET ps == SelectSeq(docChildren, NotSpacer)
    IN  [i \in Indices(ps) |-> Item(ps[i].text, ps[i].bullet)]

\* the text of a doc.text call without the glyph the exporter put before it
Unglyphed(text) ==
    IF StartsWith(text, <<Glyph, " ">>) THEN SubSeq(text, 3, Len(text)) ELSE text

\* the (text, is-bullet) items of the PDF
PdfContent ==
    Concat([i \in Indices(pdfLog) |->
              [k \in Indices(pdfLog[i].texts) |->
                  Item(IF pdfLog[i].bullet
                       THEN Unglyphed(pdfLog[i].texts[k].text)
                       ELSE pdfLog[i].texts[k].text,
                       pdfLog[i].bullet)]])

\* the paragraphs / blocks made from the lines of Section bodies
DocxLineItems == SelectSeq(docChildren, IsLine)
PdfLineItems == SelectSeq(pdfLog, IsLine)

BothSaved == docxState = "saved" /\ pdfPc = "saved"

\* the line starts with "- " or "* "
MarkedLine(l) == Len(l) >= 2 /\ l[1] \in {"-", "*"} /\ l[2] = " "

\* the line holds a character that is not white space
NonBlank(l) == \E i \in Indices(l) : l[i] # " " /\ l[i] # NL

\* the line, trimmed, starts with "- "
HyphenAfterTrim(l) ==
    \E k \in Indices(l) :
        /\ \A j \in 1..(k - 1) : l[j] = " "
        /\ l[k] = "-"
        /\ k + 1 <= Len(l) /\ l[k + 1] = " "
        /\ \E m \in (k + 2)..Len(l) : l[m] # " "

\* the Section bodies the exporter walks line by line
DocxBodies ==
    IF build = "page"
    THEN [i \in Indices(tailoredResume.otherSections) |->
             tailoredResume.otherSections[i].body]
    ELSE [i \in Indices(tailoredResume.sections) |->
             tailoredResume.sections[i].body]

PdfBodies ==
    IF build = "page" THEN DocxBodies ELSE <<tailoredResume.summary>> \o DocxBodies

LinesOf(bodies) == Concat([i \in Indices(bodies) |-> Split(bodies[i])])

SourceLines(items) == [i \in Indices(items) |-> items[i].line]

\* C4: DOCX and PDF export agree on content.  For every resume the ordered
\* (text, is-bullet) items of handleDownloadDocx equal those of
\* handleDownloadPdf, every line of every otherSections body included.
C4_ExportsAgree ==
    (build = "page" /\ BothSaved) => DocxContent = PdfContent

\* C5 as claimed: in every exporter a Section body line is a bullet iff it
\* starts with "- " or "* ", and every other non-empty line is a plain,
\* non-indented paragraph.
C5_BulletIffMarker ==
    /\ docxState = "saved" =>
          \A i \in Indices(DocxLineItems) :
              LET p == DocxLineItems[i]
              IN  p.line # <<>> =>
                     /\ p.bullet <=> MarkedLine(p.line)
                     /\ ~p.bullet => p.indent = 0
    /\ \A i \in Indices(PdfLineItems) :
          LET b == PdfLineItems[i]
          IN  b.line # <<>> =>
                 /\ b.bullet <=> MarkedLine(b.line)
                 /\ ~b.bullet => b.x = margin

\* C5 amended: in the exporters of page.tsx a Section body line is a bullet
\* iff it starts with "- " or "* "; in the exporters of part_000 iff, after
\* trimming, it starts with "- ".  A bullet is indented, every other line
\* with visible text is a plain paragraph at the left margin, and each such
\* line of each body is rendered once, in order.
C5_BulletRule ==
    LET Rule(l) == IF build = "page" THEN MarkedLine(l) ELSE HyphenAfterTrim(l)
    IN  /\ docxState = "saved" =>
              /\ \A i \in Indices(DocxLineItems) :
                    LET p == DocxLineItems[i]
                    IN  /\ p.bullet <=> Rule(p.line)
                        /\ p.bullet <=> p.indent > 0
              /\ SelectSeq(SourceLines(DocxLineItems), NonBlank)
                    = SelectSeq(LinesOf(DocxBodies), NonBlank)
        /\ \A i \in Indices(PdfLineItems) :
              LET b == PdfLineItems[i]
              IN  /\ b.bullet <=> Rule(b.line)
                  /\ b.bullet <=> b.x > margin
        /\ pdfPc = "saved" =>
              SelectSeq(SourceLines(PdfLineItems), NonBlank)
                 = SelectSeq(LinesOf(PdfBodies), NonBlank)

\* C5 witness: both exports of page.tsx saved, with a "* " line rendered as
\* a bullet by both
C5_Witness ==
    /\ build = "page" /\ BothSaved
    /\ \E i \in Indices(DocxLineItems) :
          DocxLineItems[i].line = <<"*", " ", "a">> /\ DocxLineItems[i].bullet
    /\ \E i \in Indices(PdfLineItems) :
          PdfLineItems[i].line = <<"*", " ", "a">> /\ PdfLineItems[i].bullet

\* C6: bullet marker stripping.  The text rendered for a bullet-marked line
\* is the line without its two-character marker, and the text of a line
\* that is not a bullet is the line unchanged, in both exporters.
C6_MarkerStripped ==
    LET Expected(l) == IF MarkedLine(l) THEN SubSeq(l, 3, Len(l)) ELSE l
    IN  build = "page" =>
           /\ docxState = "saved" =>
                 \A i \in Indices(DocxLineItems) :
                     DocxLineItems[i].text = Expected(DocxLineItems[i].line)
           /\ \A i \in Indices(PdfLineItems) :
                 LET b == PdfLineItems[i]
                 IN  (IF b.bullet THEN Unglyphed(b.texts[1].text) ELSE b.texts[1].text)
                        = Expected(b.line)

\* C7: blank lines of a Section body produce no output block.  Neither
\* exporter holds a paragraph or block (so no cursor advance, no page break)
\* for an empty or whitespace-only line of a body that has visible text.
C7_BlankLinesSilent ==
    /\ (docxState = "saved" /\ \A i \in Indices(DocxBodies) : NonBlank(DocxBodies[i])) =>
          \A i \in Indices(DocxLineItems) : NonBlank(DocxLineItems[i].line)
    /\ (pdfPc = "saved" /\ \A i \in Indices(PdfBodies) : NonBlank(PdfBodies[i])) =>
          \A i \in Indices(PdfLineItems) : NonBlank(PdfLineItems[i].line)

\* C8: a Section whose body is empty, or empty after trimming, emits only
\* its title: no body paragraph in the DOCX, no body block in the PDF.
C8_EmptyBodyTitleOnly ==
    (/\ build = "page"
     /\ tailoredResume # Null
     /\ \A i \in Indices(DocxBodies) : ~NonBlank(DocxBodies[i])) =>
        /\ docxState = "saved" => DocxLineItems = <<>>
        /\ PdfLineItems = <<>>

\* the one paragraph / block an exporter makes at a place of its code
DocxAt(role) == SelectSeq(docChildren, LAMBDA p : p.role = role)
PdfAt(role) == SelectSeq(pdfLog, LAMBDA b : b.role = role)

\* a contact field that is present and not the empty string
Filled(f) == f # undefined /\ Len(f) > 0

\* t is the fields, in order, with " / " between neighbours and nowhere else
SlashJoined(t, fields) ==
    LET n == Len(fields)
        IsSep(c) == c = " " \/ c = "/"
    IN  /\ SelectSeq(t, LAMBDA c : ~IsSep(c)) = Concat(fields)
        /\ Len(t) = Len(Concat(fields)) + (IF n = 0 THEN 0 ELSE 3 * (n - 1))
        /\ \A i \in Indices(t) :
              t[i] = "/" => /\ i - 2 >= 1 /\ i + 2 <= Len(t)
                            /\ t[i - 1] = " " /\ t[i + 1] = " "
                            /\ ~IsSep(t[i - 2]) /\ ~IsSep(t[i + 2])
        /\ \A i \in Indices(t) :
              t[i] = " " => (i > 1 /\ t[i - 1] = "/") \/ (i < Len(t) /\ t[i + 1] = "/")

\* C9: contact line.  Both exporters write the non-empty values among
\* phone, email, linkedin, address, in that order, joined by " / ", with no
\* leading, trailing or doubled separator; phone 555-1234, email a@b.com,
\* no linkedin, address NYC gives "555-1234 / a@b.com / NYC".
C9_ContactLine ==
    (build = "page" /\ tailoredResume # Null) =>
        LET r == tailoredResume
            fields == SelectSeq(<<r.phone, r.email, r.linkedin, r.address>>, Filled)
            Right(t) ==
                /\ SlashJoined(t, fields)
                /\ (r.phone = Str("555-1234") /\ r.email = Str("a@b.com")
                    /\ r.linkedin = undefined /\ r.address = Str("NYC")) =>
                      t = <<"555-1234", " ", "/", " ", "a@b.com", " ", "/", " ", "NYC">>
        IN  /\ docxState = "saved" =>
                  /\ Len(DocxAt("contact")) = 1
                  /\ Right(DocxAt("contact")[1].text)
            /\ pdfPc = "saved" =>
                  /\ Len(PdfAt("contact")) = 1
                  /\ Right(PdfAt("contact")[1].texts[1].text)

\* C9 witness: both exports saved of the resume with phone 555-1234, email
\* a@b.com, no linkedin and address NYC
C9_Witness ==
    /\ build = "page" /\ BothSaved
    /\ tailoredResume.phone = Str("555-1234")
    /\ tailoredResume.email = Str("a@b.com")
    /\ tailoredResume.linkedin = undefined
    /\ tailoredResume.address = Str("NYC")
    /\ DocxAt("contact")[1].text
          = <<"555-1234", " ", "/", " ", "a@b.com", " ", "/", " ", "NYC">>
    /\ PdfAt("contact")[1].texts[1].text = DocxAt("contact")[1].text

\* the section titles of an export that read as the given title
DocxTitled(title) ==
    SelectSeq(docChildren, LAMBDA p : p.role = "sectionTitle" /\ p.text = title)
PdfTitled(title) ==
    SelectSeq(pdfLog, LAMBDA b : b.role = "sectionTitle" /\ b.texts[1].text = title)

\* position of the first item of a role, 0 if there is none
FirstAt(seq, role) ==
    IF \E i \in Indices(seq) : seq[i].role = role
    THEN CHOOSE i \in Indices(seq) :
             seq[i].role = role /\ \A j \in 1..(i - 1) : seq[j].role # role
    ELSE 0

\* C10 as claimed: with workExperience empty the export holds no
\* "Work Experience" section title and no work entry heading, likewise for
\* education; with a non-empty sequence the title is there exactly once,
\* before the first entry.
C10_SectionSuppression ==
    LET Suppressed(entries, title, heading, titled, seq) ==
            IF entries = <<>>
            THEN titled = <<>> /\ FirstAt(seq, heading) = 0
            ELSE /\ Len(titled) = 1
                 /\ \E i \in 1..(FirstAt(seq, heading) - 1) :
                        seq[i].role = "sectionTitle"
    IN  build = "page" =>
           /\ docxState = "saved" =>
                 /\ Suppressed(tailoredResume.workExperience, Str("WORK EXPERIENCE"),
                               "workHeading", DocxTitled(Str("WORK EXPERIENCE")),
                               docChildren)
                 /\ Suppressed(tailoredResume.education, Str("EDUCATION"),
                               "eduHeading", DocxTitled(Str("EDUCATION")),
                               docChildren)
           /\ pdfPc = "saved" =>
                 /\ Suppressed(tailoredResume.workExperience, Str("WORK EXPERIENCE"),
                               "workHeading", PdfTitled(Str("WORK EXPERIENCE")), pdfLog)
                 /\ Suppressed(tailoredResume.education, Str("EDUCATION"),
                               "eduHeading", PdfTitled(Str("EDUCATION")), pdfLog)

\* how many sections of the resume other than the structured one carry a
\* title that prints as the given one
TitledElsewhere(r, title) ==
    Len(SelectSeq(r.otherSections, LAMBDA o : ToUpperCase(o.title) = title))
    + (IF Boolean(r.summary.body) /\ ToUpperCase(r.summary.title) = title
       THEN 1 ELSE 0)

\* C10: section suppression.  The exporters themselves add the "Work
\* Experience" title once when workExperience is non-empty, directly before
\* the first work entry, and not at all when it is empty; every other title
\* of that text comes from a summary or otherSections entry so titled; the
\* export holds one entry heading per entry.  Likewise for education.
C10_OwnSectionSuppression ==
    LET Own(entries, title, heading, titled, seq, back) ==
            /\ Len(titled) = (IF entries = <<>> THEN 0 ELSE 1)
                                + TitledElsewhere(tailoredResume, title)
            /\ Len(SelectSeq(seq, LAMBDA x : x.role = heading)) = Len(entries)
            /\ entries # <<>> =>
                  LET first == FirstAt(seq, heading)
                  IN  /\ first > back
                      /\ seq[first - back] \in {titled[k] : k \in Indices(titled)}
    IN  build = "page" =>
           /\ docxState = "saved" =>
                 /\ Own(tailoredResume.workExperience, Str("WORK EXPERIENCE"),
                        "workHeading", DocxTitled(Str("WORK EXPERIENCE")),
                        docChildren, 2)
                 /\ Own(tailoredResume.education, Str("EDUCATION"),
                        "eduHeading", DocxTitled(Str("EDUCATION")), docChildren, 2)
           /\ pdfPc = "saved" =>
                 /\ Own(tailoredResume.workExperience, Str("WORK EXPERIENCE"),
                        "workHeading", PdfTitled(Str("WORK EXPERIENCE")), pdfLog, 1)
                 /\ Own(tailoredResume.education, Str("EDUCATION"),
                        "eduHeading", PdfTitled(Str("EDUCATION")), pdfLog, 1)

\* C10 witness: both exports saved of a resume without work experience and
\* with one education entry; no work title or heading, one education title
C10_Witness ==
    /\ build = "page" /\ BothSaved
    /\ tailoredResume.workExperience = <<>>
    /\ Len(tailoredResume.education) = 1
    /\ tailoredResume.otherSections # <<>>
    /\ DocxTitled(Str("WORK EXPERIENCE")) = <<>>
    /\ PdfTitled(Str("WORK EXPERIENCE")) = <<>>
    /\ FirstAt(docChildren, "workHeading") = 0
    /\ FirstAt(pdfLog, "workHeading") = 0
    /\ Len(DocxTitled(Str("EDUCATION"))) = 1
    /\ Len(PdfTitled(Str("EDUCATION"))) = 1
    /\ FirstAt(docChildren, "eduHeading") > 0
    /\ FirstAt(pdfLog, "eduHeading") > 0

\* the header items an export starts with
IsHeader(x) == x.role \in {"name", "candidateTitle", "contact"}

\* the number of leading header items of an export
HeaderLen(seq) == Len(SelectSeq(seq, IsHeader))

\* how many items of an export are section titles
TitleCount(seq) == Len(SelectSeq(seq, LAMBDA x : x.role = "sectionTitle"))

\* the section titles the resume asks for besides the summary's
OtherTitles(r) ==
    (IF r.workExperience # <<>> THEN 1 ELSE 0)
    + (IF r.education # <<>> THEN 1 ELSE 0)
    + Len(r.otherSections)

\* C11: summary rule.  With a non-empty summary.body the summary title and
\* then the summary body paragraph come directly after the header, in both
\* exports; with an empty summary.body there is neither a title nor a
\* paragraph for the summary.
C11_SummaryRule ==
    LET r == tailoredResume
        Rule(seq, back, TextOf(_)) ==
            LET h == HeaderLen(seq)
            IN  /\ \A i \in 1..h : IsHeader(seq[i])
                /\ IF r.summary.body # <<>>
                   THEN /\ Len(seq) >= h + 1 + back
                        /\ seq[h + 1].role = "sectionTitle"
                        /\ TextOf(seq[h + 1]) = ToUpperCase(r.summary.title)
                        /\ seq[h + 1 + back].role = "summary"
                        /\ TextOf(seq[h + 1 + back]) = r.summary.body
                        /\ \A i \in (h + 2)..(h + back) : seq[i].role = "spacer"
                        /\ Len(SelectSeq(seq, LAMBDA x : x.role = "summary")) = 1
                        /\ TitleCount(seq) = OtherTitles(r) + 1
                   ELSE /\ SelectSeq(seq, LAMBDA x : x.role = "summary") = <<>>
                        /\ TitleCount(seq) = OtherTitles(r)
    IN  build = "page" =>
           /\ docxState = "saved" => Rule(docChildren, 2, LAMBDA p : p.text)
           /\ pdfPc = "saved" => Rule(pdfLog, 1, LAMBDA b : b.texts[1].text)

\* C11 witness: both exports saved of a resume with a summary body and two
\* jobs; the fourth DOCX paragraph after the header is the summary body
C11_Witness ==
    /\ build = "page" /\ BothSaved
    /\ tailoredResume.summary.body = A(1)
    /\ Len(tailoredResume.workExperience) = 2
    /\ docChildren[HeaderLen(docChildren) + 3].text = A(1)
    /\ pdfLog[HeaderLen(pdfLog) + 2].texts[1].text = A(1)
    /\ pdfLog[HeaderLen(pdfLog) + 1].texts[1].text = Str("SUMMARY")

\* the part of the export an item belongs to, by the place that made it
Rank(x) ==
    CASE IsHeader(x) -> 0
      [] x.role = "summary" -> 1
      [] x.role \in {"workHeading", "workDates"} -> 2
      [] x.role \in {"eduHeading", "eduDetails"} -> 3
      [] x.role = "line" -> 4
      [] OTHER -> 5

\* the entry headings and entry bullets the resume asks for, in its order
EntryTexts(r) ==
    Concat([i \in Indices(r.workExperience) |->
              << r.workExperience[i].jobTitle \o <<" ", "/", " ">>
                 \o r.workExperience[i].company >>
              \o r.workExperience[i].description])
    \o Concat([i \in Indices(r.education) |->
              << r.education[i].degree >> \o r.education[i].details])

\* the section titles and body lines the resume asks for, in its order
SectionTexts(r) ==
    (IF r.summary.body # <<>> THEN << ToUpperCase(r.summary.title) >> ELSE <<>>)
    \o (IF r.workExperience # <<>> THEN << Str("WORK EXPERIENCE") >> ELSE <<>>)
    \o (IF r.education # <<>> THEN << Str("EDUCATION") >> ELSE <<>>)
    \o Concat([i \in Indices(r.otherSections) |->
                 << ToUpperCase(r.otherSections[i].title) >>
                 \o Split(r.otherSections[i].body)])

\* C12: order preservation.  Header, summary, work experience, education
\* and other sections come in that order; the entries of workExperience and
\* education with their bullets directly after each heading, the
\* otherSections with their lines after each title, are exactly those of
\* the resume object in its order: none re-sorted, dropped or duplicated.
C12_OrderPreserved ==
    LET r == tailoredResume
        Ordered(seq, TextOf(_)) ==
            LET ranked == SelectSeq(seq, LAMBDA x : Rank(x) < 5)
                entries == SelectSeq(seq, LAMBDA x :
                               x.role \in {"workHeading", "eduHeading", "bullet"})
                sections == SelectSeq(seq, LAMBDA x :
                               x.role \in {"sectionTitle", "line"})
            IN  /\ \A i, j \in Indices(ranked) :
                      i < j => Rank(ranked[i]) <= Rank(ranked[j])
                /\ [i \in Indices(entries) |-> TextOf(entries[i])] = EntryTexts(r)
                /\ [i \in Indices(sections) |->
                       IF sections[i].role = "line" THEN sections[i].line
                       ELSE TextOf(sections[i])] = SectionTexts(r)
    IN  build = "page" =>
           /\ docxState = "saved" => Ordered(docChildren, LAMBDA p : p.text)
           /\ pdfPc = "saved" =>
                 Ordered(pdfLog, LAMBDA b : IF b.bullet
                                            THEN Unglyphed(b.texts[1].text)
                                            ELSE b.texts[1].text)

\* C12 witness: both exports saved of a resume whose second job, second
\* degree and second section would sort before the first ones
C12_Witness ==
    /\ build = "page" /\ BothSaved
    /\ tailoredResume \in OrderResumes
    /\ tailoredResume.workExperience[1].jobTitle = Str("j2")
    /\ tailoredResume.education[1].degree = Str("g2")
    /\ tailoredResume.otherSections[1].title = Str("Skills")
    /\ LET hs == SelectSeq(docChildren, LAMBDA p : p.role = "workHeading")
       IN  hs[1].text = <<"j2", " ", "/", " ", "c">>
    /\ LET hs == SelectSeq(pdfLog, LAMBDA b : b.role = "eduHeading")
       IN  hs[1].texts[1].text = Str("g2") /\ hs[2].texts[1].text = Str("g1")

\* C13: education entry heading.  For every education item both exports
\* hold the degree as the primary line and, right after it, the non-empty
\* values among dates, school, location, in that order, joined by " / ",
\* absent fields skipped, no dangling separator.
C13_EducationHeading ==
    LET r == tailoredResume
        Secondary(edu) ==
            SelectSeq(<<edu.dates, edu.school, edu.location>>, Filled)
    IN  build = "page" =>
           /\ docxState = "saved" =>
                 LET at == SelectSeq([i \in Indices(docChildren) |-> i],
                               LAMBDA i : docChildren[i].role = "eduHeading")
                 IN  /\ Len(at) = Len(r.education)
                     /\ \A k \in Indices(at) :
                           /\ docChildren[at[k]].text = r.education[k].degree
                           /\ at[k] < Len(docChildren)
                           /\ docChildren[at[k] + 1].role = "eduDetails"
                           /\ SlashJoined(docChildren[at[k] + 1].text,
                                          Secondary(r.education[k]))
           /\ pdfPc = "saved" =>
                 LET hs == PdfAt("eduHeading")
                 IN  /\ Len(hs) = Len(r.education)
                     /\ \A k \in Indices(hs) :
                           /\ Len(hs[k].texts) = 2
                           /\ hs[k].texts[1].text = r.education[k].degree
                           /\ hs[k].texts[2].dy > 0
                           /\ SlashJoined(hs[k].texts[2].text,
                                          Secondary(r.education[k]))

\* C13 witness: both exports saved of a degree with dates and location but
\* an empty school; the secondary line reads "d / l" in both
C13_Witness ==
    /\ build = "page" /\ BothSaved
    /\ tailoredResume \in OrderResumes
    /\ tailoredResume.education[1].school = <<>>
    /\ DocxAt("eduDetails")[1].text = <<"d", " ", "/", " ", "l">>
    /\ PdfAt("eduHeading")[1].texts[2].text = <<"d", " ", "/", " ", "l">>
    /\ PdfAt("eduHeading")[2].texts[2].text
          = <<"d", " ", "/", " ", "s1", " ", "/", " ", "l">>

\* the positions in an export of the items of a role
Places(seq, role) ==
    SelectSeq([i \in Indices(seq) |-> i], LAMBDA i : seq[i].role = role)

\* the items from position from on that are entry bullets, up to the first
\* item that is not
BulletRun(seq, from) ==
    LET stop == IF \E i \in from..Len(seq) : seq[i].role # "bullet"
                THEN CHOOSE i \in from..Len(seq) :
                         /\ seq[i].role # "bullet"
                         /\ \A j \in from..(i - 1) : seq[j].role = "bullet"
                ELSE Len(seq) + 1
    IN  stop - from

\* C14: an entry with an empty description / details sequence still gets
\* its heading.  Every work and education item has its two heading lines
\* exactly once, followed by as many bullets as the item has; an item with
\* no bullets has no bullet after its heading.
C14_HeadingWithoutBullets ==
    LET r == tailoredResume
        DocxEntries(items, heading, second, BulletsOf(_)) ==
            LET at == Places(docChildren, heading)
            IN  /\ Len(at) = Len(items)
                /\ Len(Places(docChildren, second)) = Len(items)
                /\ \A k \in Indices(at) :
                      /\ at[k] < Len(docChildren)
                      /\ docChildren[at[k] + 1].role = second
                      /\ BulletRun(docChildren, at[k] + 2) = Len(BulletsOf(items[k]))
        PdfEntries(items, heading, BulletsOf(_)) ==
            LET at == Places(pdfLog, heading)
            IN  /\ Len(at) = Len(items)
                /\ \A k \in Indices(at) :
                      /\ Len(pdfLog[at[k]].texts) = 2
                      /\ BulletRun(pdfLog, at[k] + 1) = Len(BulletsOf(items[k]))
    IN  build = "page" =>
           /\ docxState = "saved" =>
                 /\ DocxEntries(r.workExperience, "workHeading", "workDates",
                                LAMBDA job : job.description)
                 /\ DocxEntries(r.education, "eduHeading", "eduDetails",
                                LAMBDA edu : edu.details)
           /\ pdfPc = "saved" =>
                 /\ PdfEntries(r.workExperience, "workHeading",
                               LAMBDA job : job.description)
                 /\ PdfEntries(r.education, "eduHeading", LAMBDA edu : edu.details)

\* C14 witness: both exports saved of a resume whose second job and whose
\* degree have no bullets; the second job heading is there, no bullet after
C14_Witness ==
    /\ build = "page" /\ BothSaved
    /\ Len(tailoredResume.workExperience) = 2
    /\ tailoredResume.workExperience[1].description # <<>>
    /\ tailoredResume.workExperience[2].description = <<>>
    /\ Len(tailoredResume.education) = 1
    /\ tailoredResume.education[1].details = <<>>
    /\ Len(Places(docChildren, "workHeading")) = 2
    /\ BulletRun(docChildren, Places(docChildren, "workHeading")[2] + 2) = 0
    /\ Len(Places(pdfLog, "workHeading")) = 2
    /\ BulletRun(pdfLog, Places(pdfLog, "workHeading")[2] + 1) = 0
    /\ BulletRun(pdfLog, Places(pdfLog, "workHeading")[1] + 1) = 1

\* C15: determinism of layout.  A second run of an export handler on the
\* unchanged tailoredResume yields the sequence of the first run: the same
\* DOCX paragraphs; in the PDF the same texts, bullet flags, page breaks and
\* cursor positions, the same page count and final cursor.
C15_Deterministic ==
    /\ (docxState = "saved" /\ lastDocx # Null) => docChildren = lastDocx.children
    /\ (pdfPc = "saved" /\ lastPdf # Null) =>
          /\ pdfLog = lastPdf.log
          /\ pages = lastPdf.pages
          /\ yPos = lastPdf.yPos
    /\ (pdfPc = "emit" /\ lastPdf # Null) =>
          /\ Len(pdfLog) <= Len(lastPdf.log)
          /\ pdfLog = SubSeq(lastPdf.log, 1, Len(pdfLog))

\* C15 witness: the second run of both exports has finished on a resume
\* whose PDF has a page break
C15_Witness ==
    /\ lastDocx # Null /\ lastPdf # Null
    /\ BothSaved
    /\ docChildren # <<>>
    /\ pages > 1
    /\ pdfLog = lastPdf.log
    /\ \E i \in Indices(pdfLog) : pdfLog[i].page = 2 /\ pdfLog[i].y = margin

\* s is the start of t
IsPrefix(s, t) == Len(s) <= Len(t) /\ s = SubSeq(t, 1, Len(s))

\* C16: chat history is append-only.  Whether careerChat succeeds or
\* fails, every step of the chatbot page keeps each turn of the transcript
\* in its place and only appends to it.
C16_AppendOnly == [][IsPrefix(messages, messages')]_vars

\* C17: full history is resent on each chat call.  The history given to
\* careerChat is the transcript before the new user message, turn by turn,
\* the new message is given as message and is not in history; the flow's
\* prompt lists those turns and then the new message, each once.
C17_FullHistoryResent ==
    /\ chatCall # Null =>
          LET n == Len(messages)
          IN  /\ n = Len(chatCall.history) + 1
              /\ \A i \in 1..(n - 1) :
                    /\ chatCall.history[i].role = messages[i].role
                    /\ chatCall.history[i].content = messages[i].content
              /\ messages[n] = [role |-> "user", content |-> chatCall.message]
    /\ chatResult # Null =>
          chatResult.prompt = SubSeq(messages, 1, Len(messages) - 1)

\* C17 witness: the second message is in flight, after a first one that was
\* answered; history holds the greeting, the first message and its answer
C17_Witness ==
    /\ chatCall # Null
    /\ chatCall.message = Str("done")
    /\ chatCall.history
          = << Greeting, [role |-> "user", content |-> Str("hi")],
               [role |-> "model", content |-> Str("r1")] >>
    /\ Len(messages) = 4

\* C18: chat resume data.  What careerChat returns either has no resumeData
\* or has one that fits the resume output schema; the page shows the
\* response of the result and nothing else of it.
C18_ResumeDataValid ==
    chatResult # Null =>
        LET result == chatResult.result
        IN  /\ result.t = "object"
            /\ Has(result, "response")
            /\ result.v.response.t = "string"
            /\ Has(result, "resumeData") =>
                  /\ result.v.resumeData \in GoodResumeData
                  /\ result.v.resumeData \notin BadResumeData
            /\ messages[Len(messages)]
                  = [role |-> "model", content |-> result.v.response.v]

\* C18 witness: careerChat has returned a result with resumeData that has
\* no linkedin and no sections
C18_Witness ==
    /\ chatResult # Null
    /\ Has(chatResult.result, "resumeData")
    /\ chatResult.result.v.resumeData = JObject([ResumeFields EXCEPT !.sections = JArray(<<>>)])
    /\ ~chatIsLoading
    /\ messages[Len(messages)].content = Str("r1")

\* C19: independent failure reporting.  Once onSubmit has ended, the result
\* of every AI call of the submission that resolved is in the UI state:
\* the suggestions when suggestResumeEdits resolved, the tailored resume
\* when generateTailoredResume resolved, whatever happened to the other
\* call, and the keyword analysis when analyzeJobDescription resolved.
C19_IndependentResults ==
    (submitPc = "idle" /\ calls # Null) =>
        /\ calls.analysis.state = "fulfilled" => analysis = calls.analysis.value
        /\ calls.suggestions.state = "fulfilled" =>
              suggestions = calls.suggestions.value.suggestedEdits
        /\ calls.tailoredResume.state = "fulfilled" =>
              tailoredResume = calls.tailoredResume.value

\* C20: errors never wedge the session.  Whatever step of a submission
\* fails, the loading flag returns to false.
C20_LoadingReturns == isLoading ~> ~isLoading

\* the descriptive message the code produces for the cause that made the
\* extraction of the submission fail: the reason given to reject(), or the
\* message of the Error thrown for empty text
ExtractionFailed ==
    /\ submitPc = "idle"
    /\ extraction # Null
    /\ \/ extraction.state = "rejected"
       \/ extraction.state = "fulfilled" /\ Trim(extraction.value) = <<>>

DescriptiveMessage ==
    IF extraction.state = "rejected"
    THEN extraction.error.reason
    ELSE "Could not extract any text from the resume file. It might be empty or an image-based file."

\* C21: extraction errors are surfaced descriptively.  When onSubmit has
\* ended on a failed extraction (PDF or DOCX that does not parse, unsupported
\* file type, empty or whitespace-only text) the notification it raised
\* carries the message produced for that cause, not the generic fallback.
C21_DescriptiveErrors ==
    ExtractionFailed =>
        \E i \in 1..Len(toasts) : toasts[i].description = DescriptiveMessage

\* the flow has returned or thrown on the output the prompt gave it
FlowSettled == flowOutput # Null /\ flowCall # Pending

\* the required keys of the resume object hold values of their types
RequiredFieldsFit(x) ==
    /\ x.t = "object"
    /\ \A key \in {"name", "email", "phone", "summary", "fullResumeText"} :
           Has(x, key) /\ x.v[key].t = "string"
    /\ Has(x, "sections")
    /\ x.v.sections.t = "array"
    /\ \A i \in 1..Len(x.v.sections.v) :
           LET sec == x.v.sections.v[i]
           IN  /\ sec.t = "object"
               /\ \A key \in {"title", "body"} : Has(sec, key) /\ sec.v[key].t = "string"

\* C22: schema rejection.  A generated resume object without email makes
\* generateTailoredResume fail with a validation error that names email; an
\* object with every required field and no optional field is returned, and
\* the resume returned has no optional field.
C22_SchemaRejection ==
    FlowSettled =>
        /\ (flowOutput.t = "object" /\ ~Has(flowOutput, "email")) =>
               /\ flowCall.state = "rejected"
               /\ Issue(<<"email">>) \in flowCall.error.issues
        /\ (RequiredFieldsFit(flowOutput) /\ ~Has(flowOutput, "linkedin")) =>
               /\ flowCall.state = "fulfilled"
               /\ ~Has(flowCall.value, "linkedin")
               /\ RequiredFieldsFit(flowCall.value)

\* C22 witness: the flow has thrown on an object that lacks nothing but email.
C22_Witness ==
    /\ flowOutput = JObject(Without(ResumeFields, "email"))
    /\ flowCall = Rejected(ValidationError({Issue(<<"email">>)}))

\* C23: no malformed resume is returned.  Whatever generateTailoredResume
\* returns has every required field, a name that is not the empty string, and
\* a sections list that is a sequence of sections.
C23_MalformedRejected ==
    (FlowSettled /\ flowCall.state = "fulfilled") =>
        /\ RequiredFieldsFit(flowCall.value)
        /\ flowCall.value.v.name.v # <<>>

\* the bullet blocks the PDF export has drawn so far
DrawnBullets == {i \in Indices(pdfLog) : pdfLog[i].bullet}

\* the wrap width of a plain paragraph
PlainWrap == pageWidth - margin * 2

\* C24: consistent hanging indent in the PDF export.  Every bullet block,
\* of work experience, education or another section, is wrapped to the
\* plain-paragraph width reduced by exactly the amount its text is shifted
\* right of the left margin, so all bullets shifted alike wrap alike, and
\* its words start further right than its glyph.
C24_HangingIndent ==
    \A i \in DrawnBullets :
        /\ pdfLog[i].wrap = PlainWrap - (pdfLog[i].x - margin)
        /\ glyphX(build, pdfLog[i]) < wordsX(build, pdfLog[i])
        /\ \A j \in DrawnBullets :
               pdfLog[j].x = pdfLog[i].x => pdfLog[j].wrap = pdfLog[i].wrap

\* C29: bullet text stays inside the right margin of the PDF.  For every
\* bullet block the x its wrapped text is drawn at plus the width it is
\* wrapped to is at most pageWidth - margin.
C29_BulletInsideRightMargin ==
    \A i \in DrawnBullets : pdfLog[i].x + pdfLog[i].wrap <= pageWidth - margin

\* onSubmit of the page with the resume file has made its calls record
FileSubmission == build = "page" /\ calls # Null

Issued(c) == calls[c].state # "none"

\* C25: ordering of the AI calls of a submission.  suggestResumeEdits and
\* generateTailoredResume are issued only once analyzeJobDescription has
\* resolved, both in the same step, so that both are in flight before
\* either is awaited; suggestions and tailoredResume are stored only when
\* both have resolved; when the analysis call rejects neither is issued.
C25_CallOrdering ==
    FileSubmission =>
        /\ (Issued("suggestions") \/ Issued("tailoredResume")) =>
               calls.analysis.state = "fulfilled"
        /\ Issued("suggestions") <=> Issued("tailoredResume")
        /\ (suggestions # Null \/ tailoredResume # Null) =>
               /\ calls.suggestions.state = "fulfilled"
               /\ calls.tailoredResume.state = "fulfilled"
               /\ suggestions # Null /\ tailoredResume # Null
        /\ calls.analysis.state = "rejected" =>
               ~Issued("suggestions") /\ ~Issued("tailoredResume")

\* C25 witness: a submission of the file page has ended with the analysis
\* and both later results stored.
C25_Witness ==
    /\ FileSubmission
    /\ submitPc = "idle"
    /\ suggestions # Null
    /\ tailoredResume # Null
    /\ analysis # Null

\* the text extracted for the submission is empty or whitespace-only
EmptyText ==
    FileSubmission /\ extraction.state = "fulfilled" /\ Trim(extraction.value) = <<>>

\* no AI call issued, no result in the UI state
NothingIssued ==
    /\ \A c \in {"analysis", "suggestions", "tailoredResume"} : ~Issued(c)
    /\ analysis = Null /\ suggestions = Null /\ tailoredResume = Null

\* C26: empty extracted text.  When the text of the resume file is empty
\* or whitespace-only, no analyzeJobDescription, suggestResumeEdits or
\* generateTailoredResume call is issued and analysis, suggestions and
\* tailoredResume stay null; the step in which onSubmit goes on after the
\* extraction issues no call, raises the error of the empty text and sets
\* isLoading to false.
C26_EmptyTextStopsEarly ==
    /\ [](EmptyText => NothingIssued /\ submitPc \in {"extract", "idle"})
    /\ [][(EmptyText /\ submitPc = "extract" /\ submitPc' # "extract") =>
             /\ submitPc' = "idle"
             /\ ~isLoading'
             /\ calls' = calls
             /\ Len(toasts') = Len(toasts) + 1
             /\ toasts'[Len(toasts')].description =
                   "Could not extract any text from the resume file. It might be empty or an image-based file."]_vars

\* C26 witness: onSubmit has ended on a text file that holds a line break
\* only.
C26_Witness ==
    /\ FileSubmission
    /\ resumeFile = File("text/plain", TRUE, TRUE, <<NL>>)
    /\ extraction = Fulfilled(<<NL>>)
    /\ submitPc = "idle"
    /\ ~isLoading

\* C27: a displayed cover letter belongs to the current submission.
\* Whenever coverLetter is non-null, a tailored resume is held in state, the
\* letter was generated for the candidate of that resume and for the job
\* description of the latest submission, and no submission is in progress
\* that would have cleared it.
C27_CoverLetterCurrent ==
    coverLetter # Null =>
        /\ tailoredResume # Null
        /\ coverLetter.candidateName = tailoredResume.name
        /\ coverLetter.jobDescription = formJobDescription
        /\ ~isLoading

\* a step that issues a careerChat call
CallIssued == chatCall' # Null /\ chatCall' # chatCall

\* a step that appends a user message to the transcript
UserMessageAppended ==
    /\ Len(messages') = Len(messages) + 1
    /\ messages'[Len(messages')].role = "user"

\* C28: at most one chat request is in flight.  While isLoading is true or
\* the input is empty or whitespace-only no careerChat call is issued and no
\* user message is appended, and while isLoading is true the input does not
\* change; a call is in flight exactly while isLoading is true, so no call
\* is issued while another is in flight; and the step that ends a call puts
\* its model message behind the transcript that ends with the user message
\* of that call.
C28_OneRequestInFlight ==
    /\ [](chatIsLoading <=> chatCall # Null)
    /\ [][/\ ((chatIsLoading \/ Trim(input) = <<>>) =>
                  (~CallIssued /\ ~UserMessageAppended))
           /\ (chatIsLoading => input' = input)
           /\ (CallIssued => (chatCall = Null /\ chatIsLoading'))
           /\ ((chatCall # Null /\ chatCall' = Null) =>
                  (/\ messages[Len(messages)] =
                         [role |-> "user", content |-> chatCall.message]
                   /\ messages'[Len(messages')].role = "model"
                   /\ ~chatIsLoading'))]_vars

\* C28 witness: two messages have been sent one after the other and each
\* has its answer behind it.
C28_Witness ==
    /\ Len(messages) = 5
    /\ ~chatIsLoading
    /\ chatCall = Null
    /\ \A i \in {2, 4} : messages[i].role = "user" /\ messages[i + 1].role = "model"
    /\ messages[3].content = Str("r1")
    /\ messages[5].content = Str("r2")

\* the results in the UI state are those of the latest submission
ResultsOfLatest ==
    /\ analysis # Null => analysis = Keywords(submits)
    /\ suggestions # Null => suggestions = SuggestedEdits(submits)
    /\ tailoredResume # Null =>
          /\ calls.tailoredResume = Fulfilled(tailoredResume)
          /\ calls.analysis = Fulfilled(analysis)
          /\ analysis # Null
          /\ suggestions # Null

\* C30: results shown never mix submissions.  A step that starts a
\* submission leaves analysis and suggestions, and on the page of the
\* resume file tailoredResume and coverLetter, null; in every state the
\* non-null values among analysis, suggestions and tailoredResume are those
\* of the latest submission, and with tailoredResume non-null analysis and
\* suggestions are non-null too; while tailoredResume is null no step
\* changes anything of the DOCX or PDF export.
C30_NoMixedResults ==
    /\ []ResultsOfLatest
    /\ [][/\ (submits' # submits =>
                  (/\ analysis' = Null
                   /\ suggestions' = Null
                   /\ isLoading'
                   /\ (build = "page" => (tailoredResume' = Null /\ coverLetter' = Null))))
           /\ (tailoredResume = Null =>
                  UNCHANGED <<docxState, docChildren, pdfPc, pdfIdx, yPos, pages, pdfLog>>)]_vars

\* C30 witness: the second submission has ended with its three results in
\* the UI state, after a first one that had stored its own, and the resume
\* has been exported to DOCX and PDF.
C30_Witness ==
    /\ submits = 2
    /\ submitPc = "idle"
    /\ analysis = Keywords(2)
    /\ suggestions = SuggestedEdits(2)
    /\ tailoredResume # Null
    /\ docxState = "saved"
    /\ pdfPc = "saved"

====
